---- MODULE Spec2Model ----
(***************************************************************************)
(* Split-layers: a colour-separation raster editor (React).                *)
(*                                                                         *)
(* The module models                                                       *)
(*   - the undo/redo hook useHistory (hooks/useHistory.js),                *)
(*   - the App component's editor state and its handlers (App.jsx),        *)
(*   - the CanvasEditor's image decode effect and erase stroke             *)
(*     (components/CanvasEditor.jsx),                                      *)
(*   - the pure raster helpers they call (utils/imageUtils.js,             *)
(*     utils/colorUtils.js, utils/layerUtils.js).                          *)
(*                                                                         *)
(* Specifications:                                                         *)
(*   Spec         the editor: every handler is one atomic action (React    *)
(*                runs a handler to completion and re-renders before the   *)
(*                next event); image decodes are asynchronous.             *)
(*   SpecHistory  the hook under a client, driven past its capacity of 30. *)
(*   SpecAlias    the hook alone with JavaScript object identity: every    *)
(*                typed array carries its identity, so sharing shows.      *)
(*   SpecBrush    the editor with an image and layers, under the brush.    *)
(*   SpecStroke   a brush stroke with object identity of the masks.        *)
(*   SpecGeom     rotate, flip and crop on tagged rasters.                 *)
(*   SpecDraw     scheduling of redraws on animation frames.               *)
(*   SpecColor    colorMatches on sampled colours and tolerances.          *)
(*   SpecOrder    reordering of the layer list.                            *)
(*   SpecMerge    mergePaintOverlay on sampled strokes.                    *)
(*   SpecRender   the Whole, Isolate and Reconstruct composites and the    *)
(*                raster exports.                                          *)
(*   SpecDominant getDominantColors on small images.                       *)
(*   SpecPaintGeom paint strokes followed by rotate, flip and crop.        *)
(*   SpecPanel    the layers panel: selection, delete and the Reconstruct  *)
(*                checkboxes, from the mounted App.                        *)
(*                                                                         *)
(* Conventions: JavaScript arrays are 0-based, TLA+ sequences 1-based, so  *)
(* element i of an array a is a[i + 1]. null is Null for objects, NullBuf  *)
(* for typed arrays and NullId for layer ids.                              *)
(***************************************************************************)
EXTENDS Integers, Sequences, FiniteSets, TLC

\* ------------------------------------------------------------------------
\* Bounds of the model (not program constants)
\* ------------------------------------------------------------------------
\* user operations per behaviour of Spec
MaxOps == 5
\* image decodes that may be pending at once in Spec
MaxLoading == 2
\* states pushed per behaviour of SpecHistory
MaxSerial == 32
\* changes of direction (push / undo / redo / clear) per behaviour of SpecHistory
MaxTurns == 3
\* operations per behaviour of SpecAlias
MaxAliasOps == 5
\* pointer coordinates are 0..MaxCoord in each axis (inside the canvas)
MaxCoord == 1
\* SpecGeom: rasters are up to MaxSide pixels wide and high
MaxSide == 3
\* SpecGeom: transforms applied in a row
MaxGeomOps == 2
\* SpecDraw: pointer samples and state updates per behaviour
MaxDrawOps == 4
\* calls per behaviour of the specifications of one pure function
MaxCalls == 2
\* SpecOrder: operations on the layer list per behaviour
MaxMoves == 3
\* composites and exports in SpecRender
MaxRenders == 1
\* SpecPaintGeom: user operations per behaviour
MaxPaintOps == 4

\* ------------------------------------------------------------------------
\* null, and small helpers
\* ------------------------------------------------------------------------
Null == [null |-> TRUE]
NullBuf == <<>>
NullId == 0

Min(a, b) == IF a < b THEN a ELSE b
Max(a, b) == IF a > b THEN a ELSE b

\* a[i] of a typed array read in JavaScript: undefined outside the array,
\* which a typed-array store turns into 0
At(a, i) == IF i >= 0 /\ i < Len(a) THEN a[i + 1] ELSE 0

\* Array.prototype.slice(-n): the last n elements
SliceLast(s, n) == IF Len(s) <= n THEN s ELSE SubSeq(s, Len(s) - n + 1, Len(s))
\* Array.prototype.slice(0, -1): all but the last element
SliceButLast(s) == SubSeq(s, 1, Len(s) - 1)

\* ------------------------------------------------------------------------
\* State
\* ------------------------------------------------------------------------
VARIABLES
  \* App.jsx, React state of the App component
  imageUrl,               \* data URL of the current image, or Null
  dimensions,             \* [width, height], or Null
  originalImageData,      \* [width, height, data], or Null
  layers,                 \* ordered sequence of layers, index 1 is topmost
  selectedLayerId,        \* id of the layer being edited, or NullId
  selectedColor,          \* colour picked with the eyedropper, or Null
  toolMode,               \* "none" | "eyedropper" | "erase" | "paint"
  paintOpacity,           \* the opacity slider, 1..100
  selectedLayerIdsForReconstruct,  \* set of the layer ids ticked for Reconstruct
  \* App.jsx, refs
  skipNextImageReadyRef,  \* BOOLEAN
  \* useHistory.js, refs
  pastRef,                \* sequence of snapshots, newest last
  futureRef,              \* sequence of snapshots, next redo last
  \* CanvasEditor.jsx
  loading,                \* Image objects whose onload has not run yet (their src)
  canvas,                 \* [width, height] of the <canvas>, Null before the first decode
  isDrawingRef,           \* BOOLEAN
  didMoveRef,             \* BOOLEAN
  workingMaskRef,         \* scratch mask of the stroke in progress, or NullBuf
  paintOverlayRef,        \* RGBA bytes of the scratch paint overlay, or NullBuf
  imageLoaded,            \* BOOLEAN, false from a change of imageUrl to the next onload
  rafScheduledRef,        \* BOOLEAN, scheduleDraw has a callback outstanding
  drawVersion,            \* counter whose change re-runs the redraw effect
  redrawRafId,            \* the id the redraw effect's cleanup will cancel, or 0
  renderPending,          \* BOOLEAN, a state update waits for React's next commit
  \* the browser
  rafCallbacks,           \* animation-frame callbacks requested and not yet run
  rafHandle,              \* the last handle requestAnimationFrame returned
  \* bookkeeping of the model
  ops,                    \* user operations so far
  hLast,                  \* the last handler or hook call, what the hook returned to
                          \* it, and the data URL of the latest handleImageLoad
  hSerial,                \* SpecHistory: states pushed so far
  hTurns,                 \* SpecHistory: changes of direction so far
  heap                    \* SpecAlias: typed arrays allocated so far

appVars == <<imageUrl, dimensions, originalImageData, layers, selectedLayerId,
             selectedColor, toolMode, paintOpacity, selectedLayerIdsForReconstruct,
             skipNextImageReadyRef>>
histVars == <<pastRef, futureRef>>
canvasVars == <<loading, canvas, isDrawingRef, didMoveRef, workingMaskRef,
                paintOverlayRef, imageLoaded>>
drawVars == <<rafScheduledRef, drawVersion, redrawRafId, renderPending, rafCallbacks,
              rafHandle>>
harnessVars == <<hLast, hSerial, hTurns, heap>>
vars == <<appVars, histVars, canvasVars, drawVars, ops, harnessVars>>

\* no animation frame requested, nothing to render
DrawIdle ==
  /\ rafScheduledRef = FALSE
  /\ drawVersion = 0
  /\ redrawRafId = 0
  /\ renderPending = FALSE
  /\ rafCallbacks = <<>>
  /\ rafHandle = 0

\* ------------------------------------------------------------------------
\* hooks/useHistory.js
\* ------------------------------------------------------------------------
MAX_HISTORY == 30

\* new Uint8Array(a) / new Uint8ClampedArray(a): a fresh array with a's bytes
NewTypedArray(a) == [i \in 1..Len(a) |-> a[i]]

serializeLayers(ls) ==
  IF Len(ls) = 0 THEN <<>>
  ELSE [i \in 1..Len(ls) |->
          [ls[i] EXCEPT
             !.mask = IF ls[i].mask # NullBuf THEN NewTypedArray(ls[i].mask) ELSE NullBuf,
             !.paintData = IF ls[i].paintData # NullBuf
                           THEN NewTypedArray(ls[i].paintData) ELSE NullBuf]]

cloneEditorState(state) ==
  IF state = Null THEN Null
  ELSE [imageUrl |-> state.imageUrl,
        dimensions |-> IF state.dimensions # Null
                       THEN [width |-> state.dimensions.width,
                             height |-> state.dimensions.height]
                       ELSE Null,
        originalImageData |->
          IF state.originalImageData # Null
          THEN [data |-> NewTypedArray(state.originalImageData.data),
                width |-> state.originalImageData.width,
                height |-> state.originalImageData.height]
          ELSE Null,
        layers |-> serializeLayers(state.layers)]

\* push that never drops an entry
push_NoLimit(h, state) ==
  LET snapshot == cloneEditorState(state) IN
  IF snapshot = Null THEN [past |-> h.past, future |-> h.future, ret |-> Null]
  ELSE [past |-> Append(h.past, snapshot), future |-> <<>>, ret |-> Null]

\* push that keeps the oldest MAX_HISTORY entries: slice(0, MAX_HISTORY)
push_KeepOldest(h, state) ==
  LET snapshot == cloneEditorState(state) IN
  IF snapshot = Null THEN [past |-> h.past, future |-> h.future, ret |-> Null]
  ELSE [past |-> SubSeq(Append(h.past, snapshot), 1, Min(Len(h.past) + 1, 30)),
        future |-> <<>>,
        ret |-> Null]

\* push that leaves the redo stack alone
push_KeepFuture(h, state) ==
  LET snapshot == cloneEditorState(state) IN
  IF snapshot = Null THEN [past |-> h.past, future |-> h.future, ret |-> Null]
  ELSE [past |-> IF Len(h.past) + 1 <= 30 THEN Append(h.past, snapshot)
                 ELSE SubSeq(Append(h.past, snapshot), Len(h.past) - 28, Len(h.past) + 1),
        future |-> h.future,
        ret |-> Null]

\* undo that records the current state for redo before it looks at the stack
undo_RecordsWhenEmpty(h, currentState) ==
  LET future == IF currentState # Null
                THEN Append(h.future, cloneEditorState(currentState))
                ELSE h.future
  IN IF Len(h.past) = 0 THEN [past |-> h.past, future |-> future, ret |-> Null]
     ELSE [past |-> SubSeq(h.past, 1, Len(h.past) - 1),
           future |-> future,
           ret |-> cloneEditorState(h.past[Len(h.past)])]

\* undo that hands back the oldest entry instead of the newest
undo_Oldest(h, currentState) ==
  IF Len(h.past) = 0 THEN [past |-> h.past, future |-> h.future, ret |-> Null]
  ELSE [past |-> SubSeq(h.past, 1, Len(h.past) - 1),
        future |-> IF currentState # Null
                   THEN Append(h.future, cloneEditorState(currentState))
                   ELSE h.future,
        ret |-> cloneEditorState(h.past[1])]

\* The hook's operations, as functions of the two refs h = [past, future].
\* Each yields the new refs and the value the call returns.
push(h, state) ==
  LET snapshot == cloneEditorState(state) IN
  IF snapshot = Null THEN [past |-> h.past, future |-> h.future, ret |-> Null]
  ELSE [past |-> SliceLast(Append(h.past, snapshot), MAX_HISTORY),
        future |-> <<>>,
        ret |-> Null]

undo(h, currentState) ==
  IF Len(h.past) = 0 THEN [past |-> h.past, future |-> h.future, ret |-> Null]
  ELSE LET toRestore == h.past[Len(h.past)] IN
       [past |-> SliceButLast(h.past),
        future |-> IF currentState # Null
                   THEN Append(h.future, cloneEditorState(currentState))
                   ELSE h.future,
        ret |-> cloneEditorState(toRestore)]

redo(h, currentState) ==
  IF Len(h.future) = 0 THEN [past |-> h.past, future |-> h.future, ret |-> Null]
  ELSE LET toRestore == h.future[Len(h.future)] IN
       [past |-> IF currentState # Null
                 THEN Append(h.past, cloneEditorState(currentState))
                 ELSE h.past,
        future |-> SliceButLast(h.future),
        ret |-> cloneEditorState(toRestore)]

clear(h) == [past |-> <<>>, future |-> <<>>, ret |-> Null]

canUndo == Len(pastRef) > 0
canRedo == Len(futureRef) > 0

history == [past |-> pastRef, future |-> futureRef]

\* ------------------------------------------------------------------------
\* utils/layerUtils.js
\* ------------------------------------------------------------------------
createFullMask(width, height) == [i \in 1..(width * height) |-> 1]

\* createLayer(color, id): the id argument stands for the generated
\* `layer-${Date.now()}-${random}` string; mask is null until the caller sets it.
\* A new layer has no paintData property; the code reads it only through
\* `?? null` and truthiness tests, so undefined and null are both NullBuf.
\* (The display name, the colour's hex string, is not modelled.)
createLayer(color, id) ==
  [id |-> id,
   color |-> [r |-> color.r, g |-> color.g, b |-> color.b],
   visible |-> TRUE,
   tolerance |-> 10,
   mask |-> NullBuf,
   paintData |-> NullBuf]

\* ------------------------------------------------------------------------
\* utils/colorUtils.js
\* ------------------------------------------------------------------------
\* Math.min(levels - 1, Math.floor((v / 255) * levels))
quantize(v, levels) == Min(levels - 1, (v * levels) \div 255)

\* Math.round((q + 0.5) * (255 / levels)), levels = 12
BucketCentre_LowerEdge(q, levels) ==
  (q * 255) \div levels

BucketCentre(q, levels) ==
  ((2 * q + 1) * 255 + levels) \div (2 * levels)

\* getDominantColors(imageData, maxColors, sampleStep)
getDominantColors(imageData, maxColors, sampleStep) ==
  LET data == imageData.data
      w == imageData.width
      h == imageData.height
      levels == 12
      nx == (w + sampleStep - 1) \div sampleStep
      ny == (h + sampleStep - 1) \div sampleStep
      \* the k-th sampled pixel (k = 0, 1, ...) in scan order
      SampleIndex(k) == (((k \div nx) * sampleStep) * w + (k % nx) * sampleStep) * 4
      Samples == {k \in 0..(nx * ny - 1) : At(data, SampleIndex(k) + 3) >= 128}
      KeyOf(k) == <<quantize(At(data, SampleIndex(k)), levels),
                    quantize(At(data, SampleIndex(k) + 1), levels),
                    quantize(At(data, SampleIndex(k) + 2), levels)>>
      \* the object `count`: keys in insertion order, i.e. by first sample
      First == {k \in Samples : \A j \in Samples : j < k => KeyOf(j) # KeyOf(k)}
      Count(k) == Cardinality({j \in Samples : KeyOf(j) = KeyOf(k)})
      \* Array.prototype.sort is stable: ties keep insertion order
      Before(a, b) == Count(a) > Count(b) \/ (Count(a) = Count(b) /\ a < b)
      Rank(k) == Cardinality({j \in First : Before(j, k)})
      n == Min(maxColors, Cardinality(First))
  IN [p \in 1..n |->
        LET k == CHOOSE k \in First : Rank(k) = p - 1 IN
        [r |-> BucketCentre(KeyOf(k)[1], levels),
         g |-> BucketCentre(KeyOf(k)[2], levels),
         b |-> BucketCentre(KeyOf(k)[3], levels)]]

\* ------------------------------------------------------------------------
\* utils/imageUtils.js: geometric transforms
\* ------------------------------------------------------------------------
\* The pixels (x, y) of a w x h raster
Pixels(w, h) == (0..(w - 1)) \X (0..(h - 1))

\* The loops below run y outermost and x innermost; where two source pixels
\* are written to the same place the later one wins.
LastInScan(S) ==
  CHOOSE p \in S : \A q \in S : q[2] < p[2] \/ (q[2] = p[2] /\ q[1] <= p[1])

\* a rotation that turns clockwise for -90 as well
RotateDest_AlwaysClockwise(x, y, w, h, degrees) ==
  IF degrees = 180 THEN (h - 1 - y) * w + (w - 1 - x)
  ELSE x * h + (h - 1 - y)

\* destination pixel index of source pixel (x, y) in rotateImageData
RotateDest(x, y, w, h, degrees) ==
  IF degrees = 180 THEN (h - 1 - y) * w + (w - 1 - x)
  ELSE IF degrees = 90 THEN x * h + (h - 1 - y)
  ELSE (w - 1 - x) * h + y

rotateImageData(imageData, degrees) ==
  LET w == imageData.width
      h == imageData.height
      data == imageData.data
      Out == [b \in 1..Len(data) |->
                LET S == {p \in Pixels(w, h) :
                            RotateDest(p[1], p[2], w, h, degrees) = (b - 1) \div 4}
                IN IF S = {} THEN 0
                   ELSE LET p == LastInScan(S)
                        IN At(data, (p[2] * w + p[1]) * 4 + ((b - 1) % 4))]
  IN IF degrees = 180 THEN [data |-> Out, width |-> w, height |-> h]
     ELSE IF degrees = 90 \/ degrees = -90 THEN [data |-> Out, width |-> h, height |-> w]
     ELSE imageData

\* destination index of the bit of source pixel (x, y) in rotateMask: oy * outW + ox
RotateMaskDest(x, y, w, h, degrees) ==
  LET outW == IF degrees = 90 \/ degrees = -90 THEN h ELSE w
      outH == IF degrees = 90 \/ degrees = -90 THEN w ELSE h
      ox == IF degrees = 180 THEN w - 1 - x
            ELSE IF degrees = 90 THEN outW - 1 - y
            ELSE y
      oy == IF degrees = 180 THEN h - 1 - y
            ELSE IF degrees = 90 THEN x
            ELSE outH - 1 - x
  IN oy * outW + ox

\* rotateMask that turns the mask the other way round for 90 and -90
rotateMask_OtherWay(mask, w, h, degrees) ==
  LET outLen == IF degrees = 90 \/ degrees = -90 THEN h * w ELSE Len(mask)
  IN [k \in 1..outLen |->
        LET S == {p \in Pixels(w, h) :
                    /\ degrees \in {180, 90, -90}
                    /\ RotateMaskDest(p[1], p[2], w, h,
                                      IF degrees = 180 THEN 180 ELSE 0 - degrees) = k - 1}
        IN IF S = {} THEN 0
           ELSE LET p == LastInScan(S) IN At(mask, p[2] * w + p[1])]

rotateMask(mask, w, h, degrees) ==
  LET outLen == IF degrees = 90 \/ degrees = -90 THEN h * w ELSE Len(mask)
  IN [k \in 1..outLen |->
        LET S == {p \in Pixels(w, h) :
                    /\ degrees \in {180, 90, -90}
                    /\ RotateMaskDest(p[1], p[2], w, h, degrees) = k - 1}
        IN IF S = {} THEN 0
           ELSE LET p == LastInScan(S) IN At(mask, p[2] * w + p[1])]

\* flipImageData(imageData, horizontal, vertical): in place, returns imageData
flipImageData(imageData, horizontal, vertical) ==
  LET w == imageData.width
      h == imageData.height
      copy == imageData.data
      Src(i) == LET x == i % w
                    y == i \div w
                    sx == IF horizontal THEN w - 1 - x ELSE x
                    sy == IF vertical THEN h - 1 - y ELSE y
                IN sy * w + sx
  IN [imageData EXCEPT
        !.data = [b \in 1..Len(copy) |->
                    IF (b - 1) \div 4 < w * h
                    THEN At(copy, Src((b - 1) \div 4) * 4 + ((b - 1) % 4))
                    ELSE copy[b]]]

\* flipMask(mask, w, h, horizontal, vertical): in place, returns mask
flipMask(mask, w, h, horizontal, vertical) ==
  LET copy == mask
      Src(i) == LET x == i % w
                    y == i \div w
                    sx == IF horizontal THEN w - 1 - x ELSE x
                    sy == IF vertical THEN h - 1 - y ELSE y
                IN sy * w + sx
  IN [k \in 1..Len(mask) |->
        IF k - 1 < w * h THEN At(copy, Src(k - 1)) ELSE copy[k]]

cropImageData(imageData, rect) ==
  LET cw == rect.width
      ch == rect.height
      src == imageData.data
      w == imageData.width
  IN [data |-> [b \in 1..(cw * ch * 4) |->
                  LET o == (b - 1) \div 4
                      sx == rect.x + (o % cw)
                      sy == rect.y + (o \div cw)
                  IN At(src, (sy * w + sx) * 4 + ((b - 1) % 4))],
      width |-> cw,
      height |-> ch]

cropMask(mask, srcWidth, rect) ==
  LET cw == rect.width
      ch == rect.height
  IN [k \in 1..(cw * ch) |->
        LET sx == rect.x + ((k - 1) % cw)
            sy == rect.y + ((k - 1) \div cw)
        IN At(mask, sy * srcWidth + sx)]

\* ------------------------------------------------------------------------
\* utils/imageUtils.js: paint
\* ------------------------------------------------------------------------
\* num / den rounded to the nearest integer, as a store into a
\* Uint8ClampedArray and Math.round do; den is odd below, so no value is
\* half-way between two integers
RoundDiv(num, den) == (2 * num + den) \div (2 * den)

\* mergePaintOverlay(existing, newData, w, h): "new over base" alpha blend.
\* With nA = newData[i + 3] / 255 and eA = existing[i + 3] / 255 a colour
\* byte is newData * nA + existing * eA * (1 - nA), the alpha byte
\* Math.round(255 * (nA + eA * (1 - nA))).
mergePaintOverlay(existing, newData, w, h) ==
  [b \in 1..(w * h * 4) |->
     LET i == ((b - 1) \div 4) * 4
         nA == At(newData, i + 3)
         eA == At(existing, i + 3)
     IN IF existing = NullBuf THEN At(newData, b - 1)
        ELSE IF (b - 1) % 4 = 3
             THEN Min(255, RoundDiv(255 * nA + eA * (255 - nA), 255))
             ELSE Min(255, RoundDiv(At(newData, b - 1) * nA * 255
                                      + At(existing, b - 1) * eA * (255 - nA),
                                    255 * 255))]

\* ------------------------------------------------------------------------
\* Data URLs
\* ------------------------------------------------------------------------
\* A canvas stores premultiplied alpha: putImageData followed by a read-back
\* (toDataURL, decode, getImageData) loses the colour of transparent pixels
\* and rounds the colour of translucent ones.
CanvasChannel(c, a) ==
  IF a = 0 THEN 0
  ELSE Min(255, (2 * ((2 * c * a + 255) \div 510) * 255 + a) \div (2 * a))

CanvasPixels(data) ==
  [b \in 1..Len(data) |->
     IF (b - 1) % 4 = 3 THEN data[b]
     ELSE CanvasChannel(data[b], At(data, ((b - 1) \div 4) * 4 + 3))]

\* imageDataToDataUrl(imageData): the PNG data URL of the raster. Two URLs are
\* the same string iff they encode the same raster; the data URL of an
\* uploaded file (kind "file") is another string than any canvas export.
imageDataToDataUrl(imageData) ==
  [kind |-> "canvas",
   png |-> [data |-> CanvasPixels(imageData.data),
            width |-> imageData.width,
            height |-> imageData.height]]

\* img.onload: the raster read back from the decoded image
DecodedImageData(url) == url.png

\* ------------------------------------------------------------------------
\* App.jsx: state helpers
\* ------------------------------------------------------------------------
\* the arguments of getDominantColors in handleImageReady
DOMINANT_MAX_COLORS == 20
DOMINANT_SAMPLE_STEP == 10

getCurrentState ==
  [imageUrl |-> imageUrl,
   dimensions |-> dimensions,
   originalImageData |-> originalImageData,
   layers |-> layers]

LayerIds(ls) == {ls[i].id : i \in 1..Len(ls)}

HasLayer(ls, id) == \E i \in 1..Len(ls) : ls[i].id = id

\* layers.find((l) => l.id === id), for an id that HasLayer
FindLayer(ls, id) == ls[CHOOSE i \in 1..Len(ls) : ls[i].id = id]

\* createLayer generates ids that never repeat. The model hands out the
\* smallest number above every id that is still held anywhere.
SnapshotIds(stack) == UNION {LayerIds(stack[i].layers) : i \in 1..Len(stack)}
UsedIds == LayerIds(layers) \cup SnapshotIds(pastRef) \cup SnapshotIds(futureRef)
             \cup {selectedLayerId}
FreshId == 1 + CHOOSE m \in UsedIds : \A n \in UsedIds : n <= m

\* updateLayer(id, updates) for the updates the handlers pass
updateLayerMask(ls, id, newMask) ==
  [i \in 1..Len(ls) |-> IF ls[i].id = id THEN [ls[i] EXCEPT !.mask = newMask] ELSE ls[i]]

updateLayerPaintData(ls, id, merged) ==
  [i \in 1..Len(ls) |-> IF ls[i].id = id THEN [ls[i] EXCEPT !.paintData = merged] ELSE ls[i]]

updateLayerTolerance(ls, id, val) ==
  [i \in 1..Len(ls) |-> IF ls[i].id = id THEN [ls[i] EXCEPT !.tolerance = val] ELSE ls[i]]

\* The image-load effect of CanvasEditor depends on [imageUrl] only: it runs,
\* and creates an Image whose onload is pending, when a handler leaves
\* imageUrl another string than before. `fresh` records whether handleImageLoad
\* set the URL.
StartDecode(newUrl, fresh) ==
  IF newUrl # imageUrl THEN Append(loading, [url |-> newUrl, fresh |-> fresh]) ELSE loading

\* applyState that forgets setDimensions
applyState_KeepsDimensions(state) ==
  [imageUrl |-> state.imageUrl,
   dimensions |-> dimensions,
   originalImageData |-> state.originalImageData,
   layers |-> state.layers,
   selectedLayerId |-> IF HasLayer(state.layers, selectedLayerId)
                       THEN selectedLayerId ELSE NullId]

\* applyState that leaves the selection as it is
applyState_KeepsSelection(state) ==
  [imageUrl |-> state.imageUrl,
   dimensions |-> state.dimensions,
   originalImageData |-> state.originalImageData,
   layers |-> state.layers,
   selectedLayerId |-> selectedLayerId]

\* applyState(state), for state # Null: the new values of the five state
\* variables it sets
applyState(state) ==
  LET stateLayers == state.layers IN
  [imageUrl |-> state.imageUrl,
   dimensions |-> state.dimensions,
   originalImageData |-> state.originalImageData,
   layers |-> stateLayers,
   selectedLayerId |-> IF HasLayer(stateLayers, selectedLayerId)
                       THEN selectedLayerId ELSE NullId]

\* colorMatches with a strict comparison (distance < threshold)
colorMatches_Strict(pr, pg, pb, tr, tg, tb, tolerancePercent) ==
  LET d2 == (pr - tr) * (pr - tr) + (pg - tg) * (pg - tg) + (pb - tb) * (pb - tb)
  IN IF tolerancePercent <= 0 THEN d2 < 0
     ELSE IF tolerancePercent > 100 THEN TRUE
     ELSE d2 * 10000 < tolerancePercent * tolerancePercent * 3 * 255 * 255

\* rgbDistance(p, t) <= toleranceToDistance(tol), in integers:
\* sqrt(d2) <= (tol / 100) * sqrt(3 * 255 * 255). Channels are bytes, so
\* d2 <= 3 * 255 * 255 and every tolerance above 100 lets every colour match.
colorMatches_Percent(pr, pg, pb, tr, tg, tb, tolerancePercent) ==
  (pr - tr) * (pr - tr) + (pg - tg) * (pg - tg) + (pb - tb) * (pb - tb)
    <= tolerancePercent * tolerancePercent

colorMatches(pr, pg, pb, tr, tg, tb, tolerancePercent) ==
  LET d2 == (pr - tr) * (pr - tr) + (pg - tg) * (pg - tg) + (pb - tb) * (pb - tb)
  IN IF tolerancePercent <= 0 THEN d2 = 0
     ELSE IF tolerancePercent > 100 THEN TRUE
     ELSE d2 * 10000 <= tolerancePercent * tolerancePercent * 3 * 255 * 255

\* ------------------------------------------------------------------------
\* Inputs of the editor
\* ------------------------------------------------------------------------
Red == <<255, 0, 0, 255>>
Blue == <<0, 0, 255, 255>>
Green == <<0, 255, 0, 255>>

\* The files the user may upload, as the data URLs FileReader yields
Upload1 == [kind |-> "file",
            png |-> [data |-> Red \o Blue \o Blue, width |-> 3, height |-> 1]]
Upload2 == [kind |-> "file", png |-> [data |-> Green, width |-> 1, height |-> 1]]
Uploads == {Upload1, Upload2}

\* the brush-size slider (1..100, initially 20)
BrushSizes == {1, 20}

\* the buttons of the Transform section
RotateDegrees == {90, -90}
FlipAxes == {<<TRUE, FALSE>>, <<FALSE, TRUE>>}

\* pointer positions on the canvas, from getCoords
CanvasCoords ==
  IF canvas = Null THEN {}
  ELSE (0..Min(MaxCoord, canvas.width - 1)) \X (0..Min(MaxCoord, canvas.height - 1))

\* ------------------------------------------------------------------------
\* components/CropModal.jsx
\* ------------------------------------------------------------------------
\* handlePointerUp: the rectangle for a drag from start to current over a
\* w x h image
CropRect(start, current, w, h) ==
  LET x0 == Min(start[1], current[1])
      y0 == Min(start[2], current[2])
      x1 == Max(start[1], current[1])
      y1 == Max(start[2], current[2])
      width == IF x1 - x0 < 4 THEN 4 ELSE x1 - x0
      height == IF y1 - y0 < 4 THEN 4 ELSE y1 - y0
      xa == IF x0 + width > w THEN w - width ELSE x0
      ya == IF y0 + height > h THEN h - height ELSE y0
  IN [x |-> IF xa < 0 THEN 0 ELSE xa,
      y |-> IF ya < 0 THEN 0 ELSE ya,
      width |-> width,
      height |-> height]

\* the drags the model tries: between corners of the image
CropRects(w, h) ==
  {CropRect(s, c, w, h) : s \in {0, w} \X {0, h}, c \in {0, w} \X {0, h}}

\* ------------------------------------------------------------------------
\* components/CanvasEditor.jsx: brush and display
\* ------------------------------------------------------------------------
\* paintMaskAt(x, y, value, maskRef) on a canvas of w x h: the new contents
\* of the mask. Stores past the end of a typed array are dropped.
paintMaskAt(mask, x, y, value, size, w, h) ==
  [k \in 1..Len(mask) |->
     IF \E p \in Pixels(w, h) :
          /\ (p[1] - x) * (p[1] - x) + (p[2] - y) * (p[2] - y) <= size * size
          /\ p[2] * w + p[1] = k - 1
     THEN value
     ELSE mask[k]]

\* the pixel numbers one stamp of the brush at (x, y) covers
Stamp(x, y, size, w, h) ==
  {p[2] * w + p[1] : p \in {q \in Pixels(w, h) :
     (q[1] - x) * (q[1] - x) + (q[2] - y) * (q[2] - y) <= size * size}}

\* new Uint8ClampedArray(n): n zero bytes
ZeroBuf(n) == [i \in 1..n |-> 0]

\* the paint colour (the colour input is left at its initial value)
PAINT_COLOR == [r |-> 255, g |-> 0, b |-> 0]

\* Math.round((paintOpacity / 100) * 255)
PaintAlpha(opacity) == (2 * opacity * 255 + 100) \div 200

\* paintColorAt(x, y) on an overlay of w x h: the new bytes of the overlay
\* (nothing happens without an overlay)
paintColorAt(data, x, y, size, w, h, opacity) ==
  [b \in 1..Len(data) |->
     IF \E p \in Pixels(w, h) :
          /\ (p[1] - x) * (p[1] - x) + (p[2] - y) * (p[2] - y) <= size * size
          /\ p[2] * w + p[1] = (b - 1) \div 4
     THEN (CASE (b - 1) % 4 = 0 -> PAINT_COLOR.r
             [] (b - 1) % 4 = 1 -> PAINT_COLOR.g
             [] (b - 1) % 4 = 2 -> PAINT_COLOR.b
             [] OTHER -> PaintAlpha(opacity))
     ELSE data[b]]

\* snap.data has a pixel with alpha above zero (handleSelectLayer)
OverlayHasContent(data) ==
  \E b \in 1..Len(data) : (b - 1) % 4 = 3 /\ data[b] > 0

\* selectedLayer?.paintData ?? null
SelectedPaintData(ls, id) ==
  IF id # NullId /\ HasLayer(ls, id) THEN FindLayer(ls, id).paintData ELSE NullBuf

\* The effect on [imageLoaded, selectedLayerId, selectedLayerPaintData]: the
\* overlay takes the selected layer's committed paint, or zeros
SyncOverlay(overlay, loaded, ls, id) ==
  IF overlay = NullBuf \/ ~loaded THEN overlay
  ELSE LET pd == SelectedPaintData(ls, id) IN
       IF pd # NullBuf /\ Len(pd) = Len(overlay) THEN pd ELSE ZeroBuf(Len(overlay))

\* The overlay after a handler that leaves layers ls2 and selection id2. The
\* effect runs when the selection is another one or the selected layer's
\* paintData is another object (pdChanged); it sees imageLoaded as it was
\* when the handler ran.
OverlayAfter(ls2, id2, pdChanged) ==
  IF paintOverlayRef = NullBuf \/ ~imageLoaded THEN paintOverlayRef
  ELSE IF id2 # selectedLayerId \/ pdChanged
       THEN SyncOverlay(paintOverlayRef, imageLoaded, ls2, id2)
       ELSE paintOverlayRef

\* The load effect on [imageUrl] calls setImageLoaded(false) when it runs
LoadedAfter(newUrl) == IF newUrl # imageUrl THEN FALSE ELSE imageLoaded

\* What the canvas shows at pixel (x, y) when no paint is present: the redraw
\* effect in isolate view (a layer is selected) and in the full-image view.
\* The result is the RGB the eyedropper reads.
DisplayedColor(x, y) ==
  LET src == canvas.data
      i == (y * canvas.width + x) * 4
      sr == At(src, i)
      sg == At(src, i + 1)
      sb == At(src, i + 2)
      sa == At(src, i + 3)
      idx == y * canvas.width + x
      Match(l) == colorMatches(sr, sg, sb, l.color.r, l.color.g, l.color.b, l.tolerance)
      Shown == [r |-> sr, g |-> sg, b |-> sb]
      Clear == [r |-> 0, g |-> 0, b |-> 0]
  IN IF selectedLayerId # NullId /\ HasLayer(layers, selectedLayerId)
     THEN LET l == FindLayer(layers, selectedLayerId)
              mask == IF workingMaskRef # NullBuf THEN workingMaskRef ELSE l.mask
          IN IF At(mask, idx) = 1 /\ Match(l) /\ sa > 0 THEN Shown ELSE Clear
     ELSE LET Vis == {j \in 1..Len(layers) : layers[j].visible}
              matchedAny == \E j \in Vis : Match(layers[j]) /\ sa > 0
              kept == \E j \in Vis : Match(layers[j]) /\ sa > 0 /\ At(layers[j].mask, idx) = 1
          IN IF kept \/ (~matchedAny /\ sa > 0) THEN Shown ELSE Clear

\* The effect on [selectedColor]: select the first layer matching the colour
AutoSelect(color, ls, current) ==
  LET M == {j \in 1..Len(ls) :
              colorMatches(color.r, color.g, color.b,
                           ls[j].color.r, ls[j].color.g, ls[j].color.b, ls[j].tolerance)}
  IN IF color = Null \/ Len(ls) = 0 \/ M = {} THEN current
     ELSE ls[CHOOSE j \in M : \A k \in M : j <= k].id

\* ------------------------------------------------------------------------
\* Spec: the editor
\* ------------------------------------------------------------------------
HarnessIdle(upload) ==
  /\ hLast = [op |-> "none", ret |-> Null, arg |-> Null, upload |-> upload]
  /\ hSerial = 0
  /\ hTurns = 0
  /\ heap = 0

\* The App as mounted: no image yet
Init ==
  /\ imageUrl = Null
  /\ dimensions = Null
  /\ originalImageData = Null
  /\ layers = <<>>
  /\ selectedLayerId = NullId
  /\ selectedColor = Null
  /\ toolMode = "none"
  /\ paintOpacity = 100
  /\ skipNextImageReadyRef = FALSE
  /\ pastRef = <<>>
  /\ futureRef = <<>>
  /\ loading = <<>>
  /\ canvas = Null
  /\ isDrawingRef = FALSE
  /\ didMoveRef = FALSE
  /\ workingMaskRef = NullBuf
  /\ paintOverlayRef = NullBuf
  /\ imageLoaded = FALSE
  /\ DrawIdle
  /\ selectedLayerIdsForReconstruct = {}
  /\ ops = 0
  /\ HarnessIdle(Null)

\* the handlers of the Transform section and of the crop modal
Transforms == {"rotate", "flip", "crop"}

\* bookkeeping: which handler ran, what the hook returned to it, and its
\* input: for a transform the state it started from, for an image-ready
\* callback whether handleImageLoad set the URL it decoded and, when it runs
\* right after a transform, the state that transform started from
Called(op, ret, arg) ==
  hLast' = [op |-> op, ret |-> ret, arg |-> arg, upload |-> hLast.upload]

\* bookkeeping of a stroke: the layers at pointer down and the pixels stamped
\* since, as long as pointer down and pointer moves follow one another
StrokeSoFar ==
  IF hLast.op \in {"pointerDown", "pointerMove"} THEN hLast.arg ELSE Null

\* one more user operation, within the bound
PanelOp ==
  /\ ops < MaxOps
  /\ ops' = ops + 1
  /\ UNCHANGED <<drawVars, hSerial, hTurns, heap>>

\* one that leaves the Reconstruct checkboxes alone
UserOp ==
  /\ PanelOp
  /\ UNCHANGED selectedLayerIdsForReconstruct

\* handleImageLoad(dataUrl)
HandleImageLoad(dataUrl) ==
  /\ UserOp
  /\ hLast' = [op |-> "load", ret |-> Null, arg |-> Null, upload |-> dataUrl]
  /\ LET h == clear(history) IN
       /\ pastRef' = h.past
       /\ futureRef' = h.future
  /\ imageUrl' = dataUrl
  /\ dimensions' = Null
  /\ originalImageData' = Null
  /\ selectedColor' = Null
  /\ layers' = <<>>
  /\ selectedLayerId' = NullId
  /\ toolMode' = "none"
  /\ loading' = StartDecode(dataUrl, TRUE)
  /\ Len(loading') <= MaxLoading
  /\ imageLoaded' = LoadedAfter(dataUrl)
  /\ paintOverlayRef' = OverlayAfter(<<>>, NullId,
                                     SelectedPaintData(layers, selectedLayerId) # NullBuf)
  /\ UNCHANGED <<paintOpacity, skipNextImageReadyRef, canvas, isDrawingRef, didMoveRef,
                 workingMaskRef>>

\* The layers handleImageReady builds for a decoded raster
NewLayersFor(imageData) ==
  LET colors == getDominantColors(imageData, DOMINANT_MAX_COLORS, DOMINANT_SAMPLE_STEP)
      base == FreshId
  IN [k \in 1..Len(colors) |->
        [createLayer(colors[k], base + k - 1) EXCEPT
           !.mask = createFullMask(imageData.width, imageData.height)]]

\* img.onload of the i-th pending Image (decodes complete in any order),
\* which calls onDimensions and handleImageReady(imageData)
ImageReady(i) ==
  LET imageData == DecodedImageData(loading[i].url)
      w == imageData.width
      h == imageData.height
  IN /\ canvas' = imageData
     /\ loading' = [k \in 1..(Len(loading) - 1) |-> IF k < i THEN loading[k] ELSE loading[k + 1]]
     /\ dimensions' = [width |-> w, height |-> h]
     /\ originalImageData' = [data |-> NewTypedArray(imageData.data), width |-> w, height |-> h]
     /\ IF skipNextImageReadyRef
        THEN /\ skipNextImageReadyRef' = FALSE
             /\ UNCHANGED <<layers, selectedLayerId>>
        ELSE /\ layers' = NewLayersFor(imageData)
             /\ selectedLayerId' = NullId
             /\ UNCHANGED skipNextImageReadyRef
     /\ Called("imageReady", Null,
               [fresh |-> loading[i].fresh,
                after |-> IF hLast.op \in Transforms THEN hLast.arg ELSE Null])
     /\ imageLoaded' = TRUE
     /\ paintOverlayRef' =
          LET fresh == ZeroBuf(w * h * 4) IN
          IF \/ ~imageLoaded
             \/ selectedLayerId' # selectedLayerId
             \/ SelectedPaintData(layers', selectedLayerId')
                  # SelectedPaintData(layers, selectedLayerId)
          THEN SyncOverlay(fresh, TRUE, layers', selectedLayerId')
          ELSE fresh
     /\ UNCHANGED <<imageUrl, selectedColor, toolMode, paintOpacity, pastRef, futureRef,
                    isDrawingRef, didMoveRef, workingMaskRef, drawVars, ops, hSerial,
                    selectedLayerIdsForReconstruct,
                    hTurns, heap>>

\* handleUndo / handleRedo, given what the hook call yields
ApplyHistoryResult(r) ==
  /\ pastRef' = r.past
  /\ futureRef' = r.future
  /\ IF r.ret # Null
     THEN LET a == applyState(r.ret) IN
          /\ skipNextImageReadyRef' = TRUE
          /\ imageUrl' = a.imageUrl
          /\ dimensions' = a.dimensions
          /\ originalImageData' = a.originalImageData
          /\ layers' = a.layers
          /\ selectedLayerId' = a.selectedLayerId
          /\ loading' = StartDecode(a.imageUrl, FALSE)
          /\ Len(loading') <= MaxLoading
          /\ imageLoaded' = LoadedAfter(a.imageUrl)
          \* the restored layers carry fresh typed arrays
          /\ paintOverlayRef' =
               IF paintOverlayRef = NullBuf \/ ~imageLoaded THEN paintOverlayRef
               ELSE OverlayAfter(a.layers, a.selectedLayerId,
                                 \/ SelectedPaintData(layers, selectedLayerId) # NullBuf
                                 \/ SelectedPaintData(a.layers, a.selectedLayerId) # NullBuf)
     ELSE UNCHANGED <<skipNextImageReadyRef, imageUrl, dimensions, originalImageData,
                      layers, selectedLayerId, loading, imageLoaded, paintOverlayRef>>
  /\ UNCHANGED <<selectedColor, toolMode, paintOpacity, canvas, isDrawingRef, didMoveRef,
                 workingMaskRef>>

\* handleUndo (the Undo button, Ctrl+Z)
HandleUndo ==
  /\ UserOp
  /\ Called("undo", undo(history, getCurrentState).ret, Null)
  /\ ApplyHistoryResult(undo(history, getCurrentState))

\* handleRedo (the Redo button, Ctrl+Shift+Z, Ctrl+Y)
HandleRedo ==
  /\ UserOp
  /\ Called("redo", redo(history, getCurrentState).ret, Null)
  /\ ApplyHistoryResult(redo(history, getCurrentState))

\* history.push(getCurrentState())
PushCurrentState ==
  LET h == push(history, getCurrentState) IN
  /\ pastRef' = h.past
  /\ futureRef' = h.future

\* handleRotate(degrees)
HandleRotate(degrees) ==
  /\ UserOp
  /\ Called("rotate", Null, getCurrentState)
  /\ originalImageData # Null
  /\ dimensions # Null
  /\ PushCurrentState
  /\ skipNextImageReadyRef' = TRUE
  /\ LET w == dimensions.width
         h == dimensions.height
         rotated == rotateImageData(originalImageData, degrees)
         newW == IF degrees = 90 \/ degrees = -90 THEN h ELSE w
         newH == IF degrees = 90 \/ degrees = -90 THEN w ELSE h
         newLayers == [i \in 1..Len(layers) |->
                         [layers[i] EXCEPT !.mask = rotateMask(layers[i].mask, w, h, degrees)]]
     IN /\ imageUrl' = imageDataToDataUrl(rotated)
        /\ dimensions' = [width |-> newW, height |-> newH]
        /\ originalImageData' = rotated
        /\ layers' = newLayers
        /\ selectedLayerId' = IF HasLayer(newLayers, selectedLayerId)
                              THEN selectedLayerId ELSE NullId
        /\ loading' = StartDecode(imageDataToDataUrl(rotated), FALSE)
        /\ imageLoaded' = LoadedAfter(imageDataToDataUrl(rotated))
        /\ paintOverlayRef' = OverlayAfter(newLayers, selectedLayerId', FALSE)
  /\ Len(loading') <= MaxLoading
  /\ UNCHANGED <<selectedColor, toolMode, paintOpacity, canvas, isDrawingRef, didMoveRef,
                 workingMaskRef>>

\* handleFlip(horizontal, vertical)
HandleFlip(horizontal, vertical) ==
  /\ UserOp
  /\ Called("flip", Null, getCurrentState)
  /\ originalImageData # Null
  /\ dimensions # Null
  /\ PushCurrentState
  /\ skipNextImageReadyRef' = TRUE
  /\ LET w == dimensions.width
         h == dimensions.height
         copy == flipImageData([data |-> NewTypedArray(originalImageData.data),
                                width |-> w, height |-> h], horizontal, vertical)
         newLayers == [i \in 1..Len(layers) |->
                         [layers[i] EXCEPT
                            !.mask = flipMask(NewTypedArray(layers[i].mask), w, h,
                                              horizontal, vertical)]]
     IN /\ imageUrl' = imageDataToDataUrl(copy)
        /\ originalImageData' = copy
        /\ layers' = newLayers
        /\ loading' = StartDecode(imageDataToDataUrl(copy), FALSE)
        /\ imageLoaded' = LoadedAfter(imageDataToDataUrl(copy))
  /\ Len(loading') <= MaxLoading
  /\ UNCHANGED <<dimensions, selectedLayerId, selectedColor, toolMode, paintOpacity, canvas,
                 isDrawingRef, didMoveRef, workingMaskRef, paintOverlayRef>>

\* handleCrop(rect), called by the crop modal's Apply button
HandleCrop(rect) ==
  /\ UserOp
  /\ Called("crop", Null, getCurrentState)
  /\ originalImageData # Null
  /\ dimensions # Null
  /\ rect.width > 0
  /\ rect.height > 0
  /\ PushCurrentState
  /\ skipNextImageReadyRef' = TRUE
  /\ LET w == dimensions.width
         cropped == cropImageData(originalImageData, rect)
         newLayers == [i \in 1..Len(layers) |->
                         [layers[i] EXCEPT !.mask = cropMask(layers[i].mask, w, rect)]]
     IN /\ imageUrl' = imageDataToDataUrl(cropped)
        /\ dimensions' = [width |-> rect.width, height |-> rect.height]
        /\ originalImageData' = cropped
        /\ layers' = newLayers
        /\ selectedLayerId' = IF HasLayer(newLayers, selectedLayerId)
                              THEN selectedLayerId ELSE NullId
        /\ loading' = StartDecode(imageDataToDataUrl(cropped), FALSE)
        /\ imageLoaded' = LoadedAfter(imageDataToDataUrl(cropped))
        /\ paintOverlayRef' = OverlayAfter(newLayers, selectedLayerId', FALSE)
  /\ Len(loading') <= MaxLoading
  /\ UNCHANGED <<selectedColor, toolMode, paintOpacity, canvas, isDrawingRef, didMoveRef,
                 workingMaskRef>>

\* handleAddLayer
HandleAddLayer ==
  /\ UserOp
  /\ Called("addLayer", Null, Null)
  /\ selectedColor # Null
  /\ dimensions # Null
  /\ LET newLayer == [createLayer(selectedColor, FreshId) EXCEPT
                        !.mask = createFullMask(dimensions.width, dimensions.height)]
     IN /\ layers' = Append(layers, newLayer)
        /\ selectedLayerId' = newLayer.id
        /\ paintOverlayRef' = OverlayAfter(Append(layers, newLayer), newLayer.id, FALSE)
  /\ UNCHANGED <<imageUrl, dimensions, originalImageData, selectedColor, toolMode,
                 paintOpacity, skipNextImageReadyRef, histVars, loading, canvas,
                 isDrawingRef, didMoveRef, workingMaskRef, imageLoaded>>

\* handleReset
HandleReset ==
  /\ UserOp
  /\ Called("reset", Null, Null)
  /\ imageUrl # Null
  /\ selectedColor' = Null
  /\ selectedLayerId' = NullId
  /\ toolMode' = "none"
  /\ layers' = [i \in 1..Len(layers) |->
                  [layers[i] EXCEPT
                     !.mask = IF dimensions # Null
                              THEN createFullMask(dimensions.width, dimensions.height)
                              ELSE layers[i].mask]]
  /\ paintOverlayRef' = OverlayAfter(layers', NullId, FALSE)
  /\ UNCHANGED <<imageUrl, dimensions, originalImageData, paintOpacity,
                 skipNextImageReadyRef, histVars, loading, canvas, isDrawingRef,
                 didMoveRef, workingMaskRef, imageLoaded>>

\* handleMaskPaint that updates the layer before it takes the snapshot
HandleMaskPaint_SnapshotsAfter(layerId, newMask) ==
  /\ layers' = updateLayerMask(layers, layerId, newMask)
  /\ LET h == push(history, [getCurrentState EXCEPT
                               !.layers = updateLayerMask(layers, layerId, newMask)])
     IN /\ pastRef' = h.past
        /\ futureRef' = h.future

\* handleMaskPaint(layerId, newMask): the new history refs and layers
HandleMaskPaint(layerId, newMask) ==
  /\ PushCurrentState
  /\ layers' = updateLayerMask(layers, layerId, newMask)

\* handleCommitPaint(layerId, {data, width, height}): the new history refs
\* and layers
HandleCommitPaint(layerId, data, width, height) ==
  IF /\ width # 0
     /\ height # 0
     /\ data # NullBuf
     /\ Len(data) = width * height * 4
     /\ HasLayer(layers, layerId)
  THEN /\ PushCurrentState
       /\ layers' = updateLayerPaintData(
                       layers, layerId,
                       mergePaintOverlay(FindLayer(layers, layerId).paintData,
                                         data, width, height))
  ELSE UNCHANGED <<layers, histVars>>

\* handleSelectLayer(id): a click on a layer row, or on "Full image" (NullId).
\* The overlay has the size of the canvas (both are set in img.onload).
HandleSelectLayer(id) ==
  /\ UserOp
  /\ Called("selectLayer", Null, Null)
  /\ id # selectedLayerId
  /\ IF /\ selectedLayerId # NullId
        /\ paintOverlayRef # NullBuf
        /\ OverlayHasContent(paintOverlayRef)
     THEN HandleCommitPaint(selectedLayerId, NewTypedArray(paintOverlayRef),
                            canvas.width, canvas.height)
     ELSE UNCHANGED <<layers, histVars>>
  /\ selectedLayerId' = id
  /\ paintOverlayRef' = OverlayAfter(layers', id, FALSE)
  /\ UNCHANGED <<imageUrl, dimensions, originalImageData, selectedColor, toolMode,
                 paintOpacity, skipNextImageReadyRef, loading, canvas, isDrawingRef,
                 didMoveRef, workingMaskRef, imageLoaded>>

\* onDeleteLayer(id) of the layers panel
HandleDeleteLayer(id) ==
  /\ PanelOp
  /\ Called("deleteLayer", Null, Null)
  /\ PushCurrentState
  /\ layers' = SelectSeq(layers, LAMBDA l : l.id # id)
  /\ selectedLayerId' = IF selectedLayerId = id THEN NullId ELSE selectedLayerId
  /\ selectedLayerIdsForReconstruct' = selectedLayerIdsForReconstruct \ {id}
  /\ paintOverlayRef' = OverlayAfter(layers', selectedLayerId', FALSE)
  /\ UNCHANGED <<imageUrl, dimensions, originalImageData, selectedColor, toolMode,
                 paintOpacity, skipNextImageReadyRef, loading, canvas, isDrawingRef,
                 didMoveRef, workingMaskRef, imageLoaded>>

\* setToolMode(id): the Pick, Erase and Paint buttons
SetToolMode(id) ==
  /\ UserOp
  /\ Called("setToolMode", Null, Null)
  /\ imageUrl # Null
  /\ id # toolMode
  /\ toolMode' = id
  /\ UNCHANGED <<imageUrl, dimensions, originalImageData, layers, selectedLayerId,
                 selectedColor, paintOpacity, skipNextImageReadyRef, histVars, canvasVars>>

\* handlePointerDown at canvas pixel (x, y)
HandlePointerDown(x, y, size) ==
  /\ UserOp
  /\ Called("pointerDown", Null,
            [start |-> layers, stamped |-> Stamp(x, y, size, canvas.width, canvas.height)])
  /\ isDrawingRef' = TRUE
  /\ didMoveRef' = FALSE
  /\ IF toolMode = "paint"
     THEN /\ paintOverlayRef' =
               IF paintOverlayRef = NullBuf THEN paintOverlayRef
               ELSE paintColorAt(paintOverlayRef, x, y, size, canvas.width, canvas.height,
                                 paintOpacity)
          /\ UNCHANGED workingMaskRef
     ELSE IF toolMode = "erase" /\ selectedLayerId # NullId
     THEN LET w == canvas.width
              h == canvas.height
              current == IF HasLayer(layers, selectedLayerId)
                            /\ FindLayer(layers, selectedLayerId).mask # NullBuf
                         THEN FindLayer(layers, selectedLayerId).mask
                         ELSE createFullMask(w, h)
          IN /\ workingMaskRef' = paintMaskAt(NewTypedArray(current), x, y, 0, size, w, h)
             /\ UNCHANGED paintOverlayRef
     ELSE UNCHANGED <<workingMaskRef, paintOverlayRef>>
  /\ UNCHANGED <<appVars, histVars, loading, canvas, imageLoaded>>

\* handlePointerMove at canvas pixel (x, y), in the cases that do something
HandlePointerMove(x, y, size) ==
  /\ UserOp
  /\ Called("pointerMove", Null,
            IF StrokeSoFar = Null THEN Null
            ELSE [start |-> StrokeSoFar.start,
                  stamped |-> StrokeSoFar.stamped
                                \cup Stamp(x, y, size, canvas.width, canvas.height)])
  /\ isDrawingRef
  /\ \/ /\ toolMode = "paint"
        /\ paintOverlayRef' =
             IF paintOverlayRef = NullBuf THEN paintOverlayRef
             ELSE paintColorAt(paintOverlayRef, x, y, size, canvas.width, canvas.height,
                               paintOpacity)
        /\ UNCHANGED workingMaskRef
     \/ /\ toolMode = "erase"
        /\ selectedLayerId # NullId
        /\ workingMaskRef # NullBuf
        /\ workingMaskRef' = paintMaskAt(workingMaskRef, x, y, 0, size,
                                         canvas.width, canvas.height)
        /\ UNCHANGED paintOverlayRef
  /\ didMoveRef' = TRUE
  /\ UNCHANGED <<appVars, histVars, loading, canvas, isDrawingRef, imageLoaded>>

\* handlePointerUp at canvas pixel (x, y). Without a stroke in progress the
\* handler returns at once; the model takes that step for the release that
\* follows a pointer leave.
HandlePointerUp(x, y) ==
  /\ UserOp
  /\ isDrawingRef \/ hLast.op = "pointerLeave"
  /\ IF ~isDrawingRef
     THEN /\ Called("pointerUp", Null, hLast.arg)
          /\ UNCHANGED <<appVars, histVars, canvasVars>>
     ELSE
     LET wasDrawing == didMoveRef
         commitsMask == /\ wasDrawing
                        /\ toolMode = "erase"
                        /\ workingMaskRef # NullBuf
                        /\ selectedLayerId # NullId
         commitsPaint == /\ wasDrawing
                         /\ toolMode = "paint"
                         /\ selectedLayerId # NullId
                         /\ paintOverlayRef # NullBuf
     IN
     /\ Called("pointerUp", Null,
               [stroke |-> StrokeSoFar,
                committed |-> IF commitsMask THEN "mask"
                              ELSE IF commitsPaint /\ HasLayer(layers, selectedLayerId)
                              THEN "paint" ELSE "none"])
     /\ IF commitsMask
        THEN HandleMaskPaint(selectedLayerId, NewTypedArray(workingMaskRef))
        ELSE IF commitsPaint
        THEN HandleCommitPaint(selectedLayerId, NewTypedArray(paintOverlayRef),
                               canvas.width, canvas.height)
        ELSE UNCHANGED <<layers, histVars>>
     /\ IF ~wasDrawing /\ imageUrl # Null /\ toolMode = "eyedropper"
        THEN /\ selectedColor' = DisplayedColor(x, y)
             /\ selectedLayerId' = AutoSelect(DisplayedColor(x, y), layers, selectedLayerId)
        ELSE UNCHANGED <<selectedColor, selectedLayerId>>
     /\ paintOverlayRef' =
          OverlayAfter(layers', selectedLayerId',
                       commitsPaint /\ HasLayer(layers, selectedLayerId))
     /\ workingMaskRef' = NullBuf
     /\ isDrawingRef' = FALSE
     /\ didMoveRef' = FALSE
     /\ UNCHANGED <<imageUrl, dimensions, originalImageData, toolMode, paintOpacity,
                    skipNextImageReadyRef, loading, canvas, imageLoaded>>

\* onPointerLeave of the canvas, in the case that does something
HandlePointerLeave ==
  /\ UserOp
  /\ Called("pointerLeave", Null,
            [stroke |-> StrokeSoFar,
             committed |-> IF workingMaskRef # NullBuf /\ selectedLayerId # NullId
                           THEN "mask" ELSE "none"])
  /\ isDrawingRef
  /\ IF workingMaskRef # NullBuf /\ selectedLayerId # NullId
     THEN HandleMaskPaint(selectedLayerId, NewTypedArray(workingMaskRef))
     ELSE UNCHANGED <<layers, histVars>>
  /\ workingMaskRef' = NullBuf
  /\ isDrawingRef' = FALSE
  /\ UNCHANGED <<imageUrl, dimensions, originalImageData, selectedLayerId, selectedColor,
                 toolMode, paintOpacity, skipNextImageReadyRef, loading, canvas, didMoveRef,
                 paintOverlayRef, imageLoaded>>

Next ==
  \/ \E u \in Uploads : HandleImageLoad(u)
  \/ \E i \in 1..Len(loading) : ImageReady(i)
  \/ HandleUndo
  \/ HandleRedo
  \/ \E d \in RotateDegrees : HandleRotate(d)
  \/ \E f \in FlipAxes : HandleFlip(f[1], f[2])
  \/ \E r \in (IF dimensions = Null THEN {}
               ELSE CropRects(dimensions.width, dimensions.height)) : HandleCrop(r)
  \/ HandleAddLayer
  \/ HandleReset
  \/ \E id \in LayerIds(layers) \cup {NullId} : HandleSelectLayer(id)
  \/ \E t \in {"eyedropper", "erase"} : SetToolMode(t)
  \/ \E c \in CanvasCoords, size \in BrushSizes : HandlePointerDown(c[1], c[2], size)
  \/ \E c \in CanvasCoords, size \in BrushSizes : HandlePointerMove(c[1], c[2], size)
  \/ \E c \in CanvasCoords : HandlePointerUp(c[1], c[2])
  \/ HandlePointerLeave

Spec == Init /\ [][Next]_vars

\* ------------------------------------------------------------------------
\* SpecBrush: brush strokes on a loaded image
\* ------------------------------------------------------------------------
\* handleToleranceChange(val) with a layer selected (without one it sets the
\* stand-alone tolerance, which nothing here reads)
HandleToleranceChange(val) ==
  /\ UserOp
  /\ Called("tolerance", Null, Null)
  /\ selectedLayerId # NullId
  /\ layers' = updateLayerTolerance(layers, selectedLayerId, val)
  /\ UNCHANGED <<imageUrl, dimensions, originalImageData, selectedLayerId, selectedColor,
                 toolMode, paintOpacity, skipNextImageReadyRef, histVars, canvasVars>>

\* the tolerance the slider is moved to
ToleranceValues == {25}

\* The editor after Upload1 was loaded and decoded (one layer, for the colour
\* of the sampled first pixel), the blue of its second pixel was picked and a
\* layer added for it; then with any of the layers or the full image
\* selected, the Erase or the Paint tool, and the opacity slider at 100 or 50.
BrushLayers ==
  LET imageData == DecodedImageData(Upload1)
      colors == getDominantColors(imageData, DOMINANT_MAX_COLORS, DOMINANT_SAMPLE_STEP)
      n == Len(colors)
  IN [k \in 1..(n + 1) |->
        IF k <= n
        THEN [createLayer(colors[k], k) EXCEPT
                !.mask = createFullMask(imageData.width, imageData.height)]
        ELSE [createLayer([r |-> 0, g |-> 0, b |-> 255], k) EXCEPT
                !.mask = createFullMask(imageData.width, imageData.height)]]

InitB ==
  LET imageData == DecodedImageData(Upload1) IN
  /\ imageUrl = Upload1
  /\ dimensions = [width |-> imageData.width, height |-> imageData.height]
  /\ originalImageData = [data |-> NewTypedArray(imageData.data),
                          width |-> imageData.width, height |-> imageData.height]
  /\ layers = BrushLayers
  /\ selectedLayerId \in LayerIds(BrushLayers) \cup {NullId}
  /\ selectedColor = [r |-> 0, g |-> 0, b |-> 255]
  /\ toolMode \in {"erase", "paint"}
  /\ paintOpacity \in {100, 50}
  /\ skipNextImageReadyRef = FALSE
  /\ pastRef = <<>>
  /\ futureRef = <<>>
  /\ loading = <<>>
  /\ canvas = imageData
  /\ isDrawingRef = FALSE
  /\ didMoveRef = FALSE
  /\ workingMaskRef = NullBuf
  /\ paintOverlayRef = ZeroBuf(imageData.width * imageData.height * 4)
  /\ imageLoaded = TRUE
  /\ DrawIdle
  /\ selectedLayerIdsForReconstruct = {}
  /\ ops = 0
  /\ HarnessIdle(Upload1)

NextB ==
  \/ \E t \in {"erase", "paint"} : SetToolMode(t)
  \/ \E id \in LayerIds(layers) \cup {NullId} : HandleSelectLayer(id)
  \/ \E id \in LayerIds(layers) : HandleDeleteLayer(id)
  \/ \E val \in ToleranceValues : HandleToleranceChange(val)
  \/ \E c \in CanvasCoords, size \in BrushSizes : HandlePointerDown(c[1], c[2], size)
  \/ \E c \in CanvasCoords, size \in BrushSizes : HandlePointerMove(c[1], c[2], size)
  \/ \E c \in CanvasCoords : HandlePointerUp(c[1], c[2])
  \/ HandlePointerLeave
  \/ HandleUndo
  \/ HandleRedo

SpecBrush == InitB /\ [][NextB]_vars

\* ------------------------------------------------------------------------
\* SpecHistory: the hook driven by a client, up to its capacity
\* ------------------------------------------------------------------------
\* The client is the editor with Upload2 loaded and decoded. Each push is
\* followed by an edit of the live state (as in handleMaskPaint, where
\* history.push(getCurrentState()) precedes updateLayer), here a tolerance
\* never used before, so that every pushed state differs from every other.
BASE_TOLERANCE == 10

\* the live state the client holds after its s-th edit
ClientLayers(s) ==
  LET imageData == DecodedImageData(Upload2)
      colors == getDominantColors(imageData, DOMINANT_MAX_COLORS, DOMINANT_SAMPLE_STEP)
  IN [k \in 1..Len(colors) |->
        [createLayer(colors[k], k) EXCEPT
           !.mask = createFullMask(imageData.width, imageData.height),
           !.tolerance = BASE_TOLERANCE + s]]

ClientState(s) ==
  LET imageData == DecodedImageData(Upload2) IN
  [imageUrl |-> Upload2,
   dimensions |-> [width |-> imageData.width, height |-> imageData.height],
   originalImageData |-> [data |-> NewTypedArray(imageData.data),
                          width |-> imageData.width, height |-> imageData.height],
   layers |-> ClientLayers(s)]

InitH ==
  /\ imageUrl = ClientState(0).imageUrl
  /\ dimensions = ClientState(0).dimensions
  /\ originalImageData = ClientState(0).originalImageData
  /\ layers = ClientState(0).layers
  /\ selectedLayerId = NullId
  /\ selectedColor = Null
  /\ toolMode = "none"
  /\ paintOpacity = 100
  /\ skipNextImageReadyRef = FALSE
  /\ pastRef = <<>>
  /\ futureRef = <<>>
  /\ loading = <<>>
  /\ canvas = DecodedImageData(Upload2)
  /\ isDrawingRef = FALSE
  /\ didMoveRef = FALSE
  /\ workingMaskRef = NullBuf
  /\ paintOverlayRef = ZeroBuf(4)
  /\ imageLoaded = TRUE
  /\ DrawIdle
  /\ selectedLayerIdsForReconstruct = {}
  /\ ops = 0
  /\ HarnessIdle(Upload2)

\* a run of calls of one operation is one leg; the client changes operation
\* at most MaxTurns times
ClientOp(op) ==
  LET turns == IF hLast.op \in {"none", op} THEN hTurns ELSE hTurns + 1 IN
  /\ turns <= MaxTurns
  /\ hTurns' = turns
  /\ UNCHANGED <<drawVars, selectedLayerIdsForReconstruct, ops, heap>>

\* history.push(getCurrentState()), then the edit
HPush ==
  /\ ClientOp("push")
  /\ hSerial < MaxSerial
  /\ hSerial' = hSerial + 1
  /\ Called("push", push(history, getCurrentState).ret, getCurrentState)
  /\ PushCurrentState
  /\ layers' = ClientLayers(hSerial + 1)
  /\ UNCHANGED <<imageUrl, dimensions, originalImageData, selectedLayerId, selectedColor,
                 toolMode, paintOpacity, skipNextImageReadyRef, canvasVars>>

\* handleUndo
HUndo ==
  /\ ClientOp("undo")
  /\ Called("undo", undo(history, getCurrentState).ret, getCurrentState)
  /\ ApplyHistoryResult(undo(history, getCurrentState))
  /\ UNCHANGED hSerial

\* handleRedo
HRedo ==
  /\ ClientOp("redo")
  /\ Called("redo", redo(history, getCurrentState).ret, getCurrentState)
  /\ ApplyHistoryResult(redo(history, getCurrentState))
  /\ UNCHANGED hSerial

\* history.clear()
HClear ==
  /\ ClientOp("clear")
  /\ Called("clear", clear(history).ret, Null)
  /\ pastRef' = clear(history).past
  /\ futureRef' = clear(history).future
  /\ UNCHANGED <<appVars, canvasVars, hSerial>>

NextH ==
  \/ HPush
  \/ HUndo
  \/ HRedo
  \/ HClear

SpecHistory == InitH /\ [][NextH]_vars

\* ------------------------------------------------------------------------
\* SpecAlias: the hook with JavaScript object identity
\* ------------------------------------------------------------------------
\* Here a typed array is [ref, bytes]: ref is the identity of the object,
\* and `heap` counts the objects allocated so far. Two holders of one ref hold
\* the same object, so a write through one is seen through the other.

\* new Uint8Array(a) / new Uint8ClampedArray(a), allocated as object `ref`
NewTypedArrayRef(a, ref) == [ref |-> ref, bytes |-> NewTypedArray(a.bytes)]

\* serializeLayers that keeps the layer's own mask object (mask: l.mask)
serializeLayersRef_SharesMask(ls, base) ==
  IF Len(ls) = 0 THEN <<>>
  ELSE [i \in 1..Len(ls) |->
          [ls[i] EXCEPT
             !.paintData = IF ls[i].paintData # Null
                           THEN NewTypedArrayRef(ls[i].paintData, base + 2 * i)
                           ELSE Null]]

\* serializeLayers, allocating from object number base + 1
serializeLayersRef(ls, base) ==
  IF Len(ls) = 0 THEN <<>>
  ELSE [i \in 1..Len(ls) |->
          [ls[i] EXCEPT
             !.mask = IF ls[i].mask # Null
                      THEN NewTypedArrayRef(ls[i].mask, base + 2 * i - 1)
                      ELSE Null,
             !.paintData = IF ls[i].paintData # Null
                           THEN NewTypedArrayRef(ls[i].paintData, base + 2 * i)
                           ELSE Null]]

\* cloneEditorState, allocating from object number base
cloneEditorStateRef(state, base) ==
  IF state = Null THEN Null
  ELSE [imageUrl |-> state.imageUrl,
        dimensions |-> IF state.dimensions # Null
                       THEN [width |-> state.dimensions.width,
                             height |-> state.dimensions.height]
                       ELSE Null,
        originalImageData |->
          IF state.originalImageData # Null
          THEN [data |-> NewTypedArrayRef(state.originalImageData.data, base),
                width |-> state.originalImageData.width,
                height |-> state.originalImageData.height]
          ELSE Null,
        layers |-> serializeLayersRef(state.layers, base)]

\* object numbers one cloneEditorState may take
RefsPerClone(state) == 1 + 2 * Len(state.layers)

\* push, undo and redo over such states; `heap` is the new object count
pushRef(h, state) ==
  [past |-> SliceLast(Append(h.past, cloneEditorStateRef(state, heap + 1)), MAX_HISTORY),
   future |-> <<>>,
   ret |-> Null,
   heap |-> heap + RefsPerClone(state)]

undoRef(h, currentState) ==
  IF Len(h.past) = 0
  THEN [past |-> h.past, future |-> h.future, ret |-> Null, heap |-> heap]
  ELSE LET toRestore == h.past[Len(h.past)] IN
       [past |-> SliceButLast(h.past),
        future |-> Append(h.future, cloneEditorStateRef(currentState, heap + 1)),
        ret |-> cloneEditorStateRef(toRestore, heap + 1 + RefsPerClone(currentState)),
        heap |-> heap + RefsPerClone(currentState) + RefsPerClone(toRestore)]

redoRef(h, currentState) ==
  IF Len(h.future) = 0
  THEN [past |-> h.past, future |-> h.future, ret |-> Null, heap |-> heap]
  ELSE LET toRestore == h.future[Len(h.future)] IN
       [past |-> Append(h.past, cloneEditorStateRef(currentState, heap + 1)),
        future |-> SliceButLast(h.future),
        ret |-> cloneEditorStateRef(toRestore, heap + 1 + RefsPerClone(currentState)),
        heap |-> heap + RefsPerClone(currentState) + RefsPerClone(toRestore)]

\* the typed arrays a state holds
Buffers(state) ==
  (IF state.originalImageData # Null THEN {state.originalImageData.data} ELSE {})
    \cup {state.layers[i].mask : i \in 1..Len(state.layers)}
    \cup {state.layers[i].paintData : i \in 1..Len(state.layers)}

Refs(state) == {b.ref : b \in Buffers(state) \ {Null}}

\* a[0] = (a[0] + 1) & 255 on object r, as seen by a holder of buffer b
WriteThrough(b, r) ==
  IF b # Null /\ b.ref = r THEN [b EXCEPT !.bytes[1] = (@ + 1) % 256] ELSE b

\* the same write, as seen by everything a state holds
WriteThroughState(state, r) ==
  [state EXCEPT
     !.originalImageData = IF @ # Null THEN [@ EXCEPT !.data = WriteThrough(@, r)] ELSE @,
     !.layers = [i \in 1..Len(@) |->
                   [@[i] EXCEPT !.mask = WriteThrough(@, r),
                                !.paintData = WriteThrough(@, r)]]]

\* The client: the editor with Upload2 decoded, one layer, an erased mask and
\* a paint overlay
InitA ==
  /\ imageUrl = Upload2
  /\ dimensions = [width |-> 1, height |-> 1]
  /\ originalImageData = [data |-> [ref |-> 1, bytes |-> DecodedImageData(Upload2).data],
                          width |-> 1, height |-> 1]
  /\ layers = <<[createLayer([r |-> 0, g |-> 255, b |-> 0], 1) EXCEPT
                   !.mask = [ref |-> 2, bytes |-> createFullMask(1, 1)],
                   !.paintData = [ref |-> 3, bytes |-> <<0, 0, 0, 0>>]]>>
  /\ selectedLayerId = NullId
  /\ selectedColor = Null
  /\ toolMode = "none"
  /\ paintOpacity = 100
  /\ skipNextImageReadyRef = FALSE
  /\ pastRef = <<>>
  /\ futureRef = <<>>
  /\ loading = <<>>
  /\ canvas = DecodedImageData(Upload2)
  /\ isDrawingRef = FALSE
  /\ didMoveRef = FALSE
  /\ workingMaskRef = NullBuf
  /\ paintOverlayRef = NullBuf
  /\ imageLoaded = FALSE
  /\ DrawIdle
  /\ selectedLayerIdsForReconstruct = {}
  /\ ops = 0
  /\ hLast = [op |-> "none", ret |-> Null, arg |-> Null, upload |-> Upload2]
  /\ hSerial = 0
  /\ hTurns = 0
  /\ heap = 3

AliasOp ==
  /\ ops < MaxAliasOps
  /\ ops' = ops + 1
  /\ UNCHANGED <<drawVars, selectedLayerIdsForReconstruct, hSerial, hTurns>>

\* history.push(getCurrentState())
APush ==
  /\ AliasOp
  /\ Called("push", Null, Null)
  /\ LET r == pushRef(history, getCurrentState) IN
       /\ pastRef' = r.past
       /\ futureRef' = r.future
       /\ heap' = r.heap
  /\ UNCHANGED <<appVars, canvasVars>>

\* handleUndo
AUndo ==
  /\ AliasOp
  /\ Called("undo", undoRef(history, getCurrentState).ret, Null)
  /\ ApplyHistoryResult(undoRef(history, getCurrentState))
  /\ heap' = undoRef(history, getCurrentState).heap

\* handleRedo
ARedo ==
  /\ AliasOp
  /\ Called("redo", redoRef(history, getCurrentState).ret, Null)
  /\ ApplyHistoryResult(redoRef(history, getCurrentState))
  /\ heap' = redoRef(history, getCurrentState).heap

\* a write into the typed array r, one of those the live state holds
AMutate(r) ==
  /\ AliasOp
  /\ Called("mutate", Null, r)
  /\ LET live == WriteThroughState(getCurrentState, r) IN
       /\ originalImageData' = live.originalImageData
       /\ layers' = live.layers
  /\ pastRef' = [k \in 1..Len(pastRef) |-> WriteThroughState(pastRef[k], r)]
  /\ futureRef' = [k \in 1..Len(futureRef) |-> WriteThroughState(futureRef[k], r)]
  /\ UNCHANGED <<imageUrl, dimensions, selectedLayerId, selectedColor, toolMode,
                 paintOpacity, skipNextImageReadyRef, canvasVars, heap>>

NextA ==
  \/ APush
  \/ AUndo
  \/ ARedo
  \/ \E r \in Refs(getCurrentState) : AMutate(r)

SpecAlias == InitA /\ [][NextA]_vars

\* ------------------------------------------------------------------------
\* SpecStroke: erase strokes with JavaScript object identity
\* ------------------------------------------------------------------------
\* Typed arrays are [ref, bytes] as in SpecAlias. The editor holds Upload1
\* decoded and two layers; a layer is selected and the Erase tool is active.
\* The paint overlay plays no part here (SpecBrush has it, by value).

\* handlePointerDown that keeps the layer's own mask object as working mask
StrokeCopy_SharesMask(current, ref) ==
  current

\* workingMaskRef.current = new Uint8Array(current), allocated as object `ref`
StrokeCopy(current, ref) ==
  NewTypedArrayRef(current, ref)

\* paintMaskAt writing zeros into object r, as seen by a holder of buffer b
StampThrough(b, r, x, y, size, w, h) ==
  IF b # Null /\ b.ref = r
  THEN [b EXCEPT !.bytes = paintMaskAt(@, x, y, 0, size, w, h)]
  ELSE b

\* the same stamp, as seen by the masks of a list of layers
StampThroughLayers(ls, r, x, y, size, w, h) ==
  [i \in 1..Len(ls) |->
     [ls[i] EXCEPT !.mask = StampThrough(@, r, x, y, size, w, h)]]

\* the same stamp, as seen by everything the editor and the history hold
StampObject(r, x, y, size) ==
  LET w == canvas.width
      h == canvas.height
  IN /\ layers' = StampThroughLayers(layers, r, x, y, size, w, h)
     /\ pastRef' = [k \in 1..Len(pastRef) |->
                      [pastRef[k] EXCEPT
                         !.layers = StampThroughLayers(@, r, x, y, size, w, h)]]
     /\ futureRef' = [k \in 1..Len(futureRef) |->
                        [futureRef[k] EXCEPT
                           !.layers = StampThroughLayers(@, r, x, y, size, w, h)]]

InitS ==
  LET imageData == DecodedImageData(Upload1) IN
  /\ imageUrl = Upload1
  /\ dimensions = [width |-> imageData.width, height |-> imageData.height]
  /\ originalImageData = [data |-> [ref |-> 1, bytes |-> imageData.data],
                          width |-> imageData.width, height |-> imageData.height]
  /\ layers = [k \in 1..Len(BrushLayers) |->
                 [BrushLayers[k] EXCEPT
                    !.mask = [ref |-> k + 1, bytes |-> @],
                    !.paintData = Null]]
  /\ selectedLayerId \in LayerIds(BrushLayers)
  /\ selectedColor = [r |-> 0, g |-> 0, b |-> 255]
  /\ toolMode = "erase"
  /\ paintOpacity = 100
  /\ skipNextImageReadyRef = FALSE
  /\ pastRef = <<>>
  /\ futureRef = <<>>
  /\ loading = <<>>
  /\ canvas = imageData
  /\ isDrawingRef = FALSE
  /\ didMoveRef = FALSE
  /\ workingMaskRef = Null
  /\ paintOverlayRef = NullBuf
  /\ imageLoaded = FALSE
  /\ DrawIdle
  /\ selectedLayerIdsForReconstruct = {}
  /\ ops = 0
  /\ hLast = [op |-> "none", ret |-> Null, arg |-> Null, upload |-> Upload1]
  /\ hSerial = 0
  /\ hTurns = 0
  /\ heap = Len(BrushLayers) + 1

\* handlePointerDown at canvas pixel (x, y), Erase tool, a layer selected
SPointerDown(x, y, size) ==
  /\ AliasOp
  /\ Called("pointerDown", Null, Null)
  /\ toolMode = "erase"
  /\ HasLayer(layers, selectedLayerId)
  /\ FindLayer(layers, selectedLayerId).mask # Null
  /\ isDrawingRef' = TRUE
  /\ didMoveRef' = FALSE
  /\ LET copy == StrokeCopy(FindLayer(layers, selectedLayerId).mask, heap + 1) IN
       /\ workingMaskRef' = StampThrough(copy, copy.ref, x, y, size,
                                          canvas.width, canvas.height)
       /\ StampObject(copy.ref, x, y, size)
  /\ heap' = heap + 1
  /\ UNCHANGED <<imageUrl, dimensions, originalImageData, selectedLayerId, selectedColor,
                 toolMode, paintOpacity, skipNextImageReadyRef, loading, canvas,
                 paintOverlayRef, imageLoaded>>

\* handlePointerMove at canvas pixel (x, y), in the erase case
SPointerMove(x, y, size) ==
  /\ AliasOp
  /\ Called("pointerMove", Null, Null)
  /\ isDrawingRef
  /\ toolMode = "erase"
  /\ selectedLayerId # NullId
  /\ workingMaskRef # Null
  /\ didMoveRef' = TRUE
  /\ workingMaskRef' = StampThrough(workingMaskRef, workingMaskRef.ref, x, y, size,
                                     canvas.width, canvas.height)
  /\ StampObject(workingMaskRef.ref, x, y, size)
  /\ UNCHANGED <<imageUrl, dimensions, originalImageData, selectedLayerId, selectedColor,
                 toolMode, paintOpacity, skipNextImageReadyRef, loading, canvas,
                 isDrawingRef, paintOverlayRef, imageLoaded, heap>>

\* onMaskPaint(selectedLayerId, new Uint8Array(workingMaskRef.current)):
\* handleMaskPaint over objects
SMaskPaint ==
  LET r == pushRef(history, getCurrentState) IN
  /\ pastRef' = r.past
  /\ futureRef' = r.future
  /\ layers' = updateLayerMask(layers, selectedLayerId,
                               NewTypedArrayRef(workingMaskRef, r.heap + 1))
  /\ heap' = r.heap + 1

\* handlePointerUp, in the erase case
SPointerUp ==
  /\ AliasOp
  /\ Called("pointerUp", Null, Null)
  /\ isDrawingRef
  /\ IF didMoveRef /\ toolMode = "erase" /\ workingMaskRef # Null
        /\ selectedLayerId # NullId
     THEN SMaskPaint
     ELSE UNCHANGED <<layers, histVars, heap>>
  /\ workingMaskRef' = Null
  /\ isDrawingRef' = FALSE
  /\ didMoveRef' = FALSE
  /\ UNCHANGED <<imageUrl, dimensions, originalImageData, selectedLayerId, selectedColor,
                 toolMode, paintOpacity, skipNextImageReadyRef, loading, canvas,
                 paintOverlayRef, imageLoaded>>

\* onPointerLeave of the canvas, during a stroke
SPointerLeave ==
  /\ AliasOp
  /\ Called("pointerLeave", Null, Null)
  /\ isDrawingRef
  /\ IF workingMaskRef # Null /\ selectedLayerId # NullId
     THEN SMaskPaint
     ELSE UNCHANGED <<layers, histVars, heap>>
  /\ workingMaskRef' = Null
  /\ isDrawingRef' = FALSE
  /\ UNCHANGED <<imageUrl, dimensions, originalImageData, selectedLayerId, selectedColor,
                 toolMode, paintOpacity, skipNextImageReadyRef, loading, canvas,
                 didMoveRef, paintOverlayRef, imageLoaded>>

NextS ==
  \/ \E c \in CanvasCoords, size \in BrushSizes : SPointerDown(c[1], c[2], size)
  \/ \E c \in CanvasCoords, size \in BrushSizes : SPointerMove(c[1], c[2], size)
  \/ SPointerUp
  \/ SPointerLeave
  \/ AUndo
  \/ ARedo

SpecStroke == InitS /\ [][NextS]_vars

\* ------------------------------------------------------------------------
\* SpecGeom: the geometric transforms of utils/imageUtils.js on their own
\* ------------------------------------------------------------------------
\* The inputs are a raster in which every pixel has a colour of its own (so
\* that where a pixel went can be read off the result) and any mask of its
\* size. The editor holds them as handleRotate, handleFlip and handleCrop find
\* them: the raster in originalImageData, the mask in the one layer.

\* the w x h raster whose pixel number i (0-based, row-major) is (i + 1, 0, 0, 255)
TaggedImage(w, h) ==
  [data |-> [b \in 1..(w * h * 4) |->
               IF (b - 1) % 4 = 0 THEN (b - 1) \div 4 + 1
               ELSE IF (b - 1) % 4 = 3 THEN 255
               ELSE 0],
   width |-> w,
   height |-> h]

\* the arguments the Transform buttons and the crop modal can pass
GeomDegrees == {90, -90, 180}
GeomFlips == {<<TRUE, FALSE>>, <<FALSE, TRUE>>, <<TRUE, TRUE>>}
InBoundsRects(w, h) ==
  {r \in [x : 0..(w - 1), y : 0..(h - 1), width : 1..w, height : 1..h] :
     r.x + r.width <= w /\ r.y + r.height <= h}

InitG ==
  \E w \in 1..MaxSide, h \in 1..MaxSide :
    \E m \in [1..(w * h) -> {0, 1}] :
      /\ imageUrl = Null
      /\ dimensions = [width |-> w, height |-> h]
      /\ originalImageData = TaggedImage(w, h)
      /\ layers = <<[createLayer([r |-> 1, g |-> 0, b |-> 0], 1) EXCEPT !.mask = m]>>
      /\ selectedLayerId = NullId
      /\ selectedColor = Null
      /\ toolMode = "none"
      /\ paintOpacity = 100
      /\ skipNextImageReadyRef = FALSE
      /\ pastRef = <<>>
      /\ futureRef = <<>>
      /\ loading = <<>>
      /\ canvas = Null
      /\ isDrawingRef = FALSE
      /\ didMoveRef = FALSE
      /\ workingMaskRef = NullBuf
      /\ paintOverlayRef = NullBuf
      /\ imageLoaded = FALSE
      /\ DrawIdle
      /\ selectedLayerIdsForReconstruct = {}
      /\ ops = 0
      /\ hLast = [op |-> "none", ret |-> Null,
                  arg |-> [param |-> 0, before |-> Null, prev |-> Null],
                  upload |-> Null]
      /\ hSerial = 0
      /\ hTurns = 0
      /\ heap = 0

\* bookkeeping: the transform applied, its argument, the raster and mask it
\* was applied to, and the transform applied before it
GeomOp(op, param) ==
  /\ ops < MaxGeomOps
  /\ ops' = ops + 1
  /\ Called(op, Null,
            [param |-> param,
             before |-> [image |-> originalImageData, mask |-> layers[1].mask],
             prev |-> [op |-> hLast.op, param |-> hLast.arg.param]])
  /\ UNCHANGED <<imageUrl, selectedLayerId, selectedColor, toolMode, paintOpacity,
                 skipNextImageReadyRef, histVars, canvasVars, drawVars, hSerial, hTurns,
                 heap, selectedLayerIdsForReconstruct>>

\* rotateImageData and rotateMask, as handleRotate calls them
GRotate(degrees) ==
  /\ GeomOp("rotate", degrees)
  /\ originalImageData' = rotateImageData(originalImageData, degrees)
  /\ dimensions' = [width |-> originalImageData'.width, height |-> originalImageData'.height]
  /\ layers' = [i \in 1..Len(layers) |->
                  [layers[i] EXCEPT
                     !.mask = rotateMask(layers[i].mask, dimensions.width,
                                         dimensions.height, degrees)]]

\* flipImageData and flipMask, as handleFlip calls them (each on a copy)
GFlip(horizontal, vertical) ==
  /\ GeomOp("flip", <<horizontal, vertical>>)
  /\ originalImageData' =
       flipImageData([data |-> NewTypedArray(originalImageData.data),
                      width |-> dimensions.width, height |-> dimensions.height],
                     horizontal, vertical)
  /\ layers' = [i \in 1..Len(layers) |->
                  [layers[i] EXCEPT
                     !.mask = flipMask(NewTypedArray(layers[i].mask), dimensions.width,
                                       dimensions.height, horizontal, vertical)]]
  /\ UNCHANGED dimensions

\* cropImageData and cropMask, as handleCrop calls them
GCrop(rect) ==
  /\ GeomOp("crop", rect)
  /\ originalImageData' = cropImageData(originalImageData, rect)
  /\ dimensions' = [width |-> rect.width, height |-> rect.height]
  /\ layers' = [i \in 1..Len(layers) |->
                  [layers[i] EXCEPT !.mask = cropMask(layers[i].mask, dimensions.width, rect)]]

NextG ==
  \/ \E d \in GeomDegrees : GRotate(d)
  \/ \E f \in GeomFlips : GFlip(f[1], f[2])
  \/ \E r \in InBoundsRects(dimensions.width, dimensions.height) : GCrop(r)

SpecGeom == InitG /\ [][NextG]_vars

\* ------------------------------------------------------------------------
\* SpecDraw: when the canvas is redrawn
\* ------------------------------------------------------------------------
\* The editor holds a decoded image. Pointer samples call scheduleDraw, and
\* handlers update state the redraw effect depends on; React commits the
\* update later and re-runs the effect; the browser runs the animation-frame
\* callbacks in the order they were requested, one at a time.

\* requestAnimationFrame(callback): the browser's list with the new callback,
\* whose handle is rafHandle + 1
requestAnimationFrame(callbacks, kind) ==
  Append(callbacks, [id |-> rafHandle + 1, kind |-> kind])

\* cancelAnimationFrame that leaves the callback in the list
cancelAnimationFrame_LeavesCallback(callbacks, id) ==
  callbacks

\* cancelAnimationFrame(id)
cancelAnimationFrame(callbacks, id) ==
  SelectSeq(callbacks, LAMBDA c : c.id # id)

\* the callbacks of one kind that have not run yet
Pending(kind) == {i \in 1..Len(rafCallbacks) : rafCallbacks[i].kind = kind}

DrawOp ==
  /\ ops < MaxDrawOps
  /\ ops' = ops + 1
  /\ UNCHANGED <<appVars, histVars, canvasVars, hSerial, hTurns, heap>>

\* scheduleDraw(), as handlePointerDown and handlePointerMove call it for
\* every pointer sample
ScheduleDraw ==
  /\ DrawOp
  /\ Called("scheduleDraw", Null, [wasScheduled |-> rafScheduledRef])
  /\ IF rafScheduledRef
     THEN UNCHANGED <<rafScheduledRef, rafCallbacks, rafHandle>>
     ELSE /\ rafScheduledRef' = TRUE
          /\ rafCallbacks' = requestAnimationFrame(rafCallbacks, "scheduleDraw")
          /\ rafHandle' = rafHandle + 1
  /\ UNCHANGED <<drawVersion, redrawRafId, renderPending>>

\* a handler updates state the redraw effect depends on: layers, selection,
\* opacity (bump = FALSE), or drawVersion as handlePointerUp does (bump = TRUE)
StateUpdate(bump) ==
  /\ DrawOp
  /\ Called("stateUpdate", Null, [bump |-> bump])
  /\ renderPending' = TRUE
  /\ drawVersion' = IF bump THEN drawVersion + 1 ELSE drawVersion
  /\ UNCHANGED <<rafScheduledRef, redrawRafId, rafCallbacks, rafHandle>>

\* React commits the pending update and re-runs the redraw effect: the
\* cleanup of the previous run cancels its frame, then the effect requests
\* one (it returns early, with no cleanup, without a decoded image)
RedrawEffect ==
  /\ renderPending
  /\ renderPending' = FALSE
  /\ Called("redrawEffect", Null,
            [cancelled |-> \E i \in 1..Len(rafCallbacks) :
                              rafCallbacks[i].id = redrawRafId])
  /\ LET cleaned == IF redrawRafId # 0
                    THEN cancelAnimationFrame(rafCallbacks, redrawRafId)
                    ELSE rafCallbacks
     IN IF canvas # Null /\ imageLoaded
        THEN /\ rafCallbacks' = requestAnimationFrame(cleaned, "redraw")
             /\ redrawRafId' = rafHandle + 1
             /\ rafHandle' = rafHandle + 1
        ELSE /\ rafCallbacks' = cleaned
             /\ redrawRafId' = 0
             /\ UNCHANGED rafHandle
  /\ UNCHANGED <<appVars, histVars, canvasVars, rafScheduledRef, drawVersion, ops,
                 hSerial, hTurns, heap>>

\* the browser runs the oldest animation-frame callback: the one of
\* scheduleDraw, or the composite of the redraw effect
AnimationFrame ==
  /\ Len(rafCallbacks) > 0
  /\ Called("animationFrame", Null, Head(rafCallbacks))
  /\ rafCallbacks' = Tail(rafCallbacks)
  /\ IF Head(rafCallbacks).kind = "scheduleDraw"
     THEN /\ rafScheduledRef' = FALSE
          /\ drawVersion' = drawVersion + 1
          /\ renderPending' = TRUE
     ELSE UNCHANGED <<rafScheduledRef, drawVersion, renderPending>>
  /\ UNCHANGED <<appVars, histVars, canvasVars, redrawRafId, rafHandle, ops,
                 hSerial, hTurns, heap>>

NextD ==
  \/ ScheduleDraw
  \/ \E bump \in BOOLEAN : StateUpdate(bump)
  \/ RedrawEffect
  \/ AnimationFrame

SpecDraw == InitB /\ [][NextD]_vars

\* ------------------------------------------------------------------------
\* SpecColor: colorMatches of utils/colorUtils.js on its own
\* ------------------------------------------------------------------------
\* The inputs: a picked colour, a target colour and a tolerance, each channel
\* from the ends and the middle of 0..255, the tolerance from the slider's
\* range and beyond.
ChannelSamples == {0, 128, 255}
ColourSamples == [r : ChannelSamples, g : ChannelSamples, b : ChannelSamples]
TolerancePercents == {0, 1, 10, 100, 150}

InitC ==
  /\ imageUrl = Null
  /\ dimensions = Null
  /\ originalImageData = Null
  /\ layers = <<>>
  /\ selectedLayerId = NullId
  /\ selectedColor \in ColourSamples
  /\ toolMode = "none"
  /\ paintOpacity = 100
  /\ skipNextImageReadyRef = FALSE
  /\ pastRef = <<>>
  /\ futureRef = <<>>
  /\ loading = <<>>
  /\ canvas = Null
  /\ isDrawingRef = FALSE
  /\ didMoveRef = FALSE
  /\ workingMaskRef = NullBuf
  /\ paintOverlayRef = NullBuf
  /\ imageLoaded = FALSE
  /\ DrawIdle
  /\ selectedLayerIdsForReconstruct = {}
  /\ ops = 0
  /\ HarnessIdle(Null)

\* one call of a pure function: nothing of the editor changes
PureCall ==
  /\ ops < MaxCalls
  /\ ops' = ops + 1
  /\ UNCHANGED <<appVars, histVars, canvasVars, drawVars, hSerial, hTurns, heap>>

\* colorMatches(selectedColor, target, tolerancePercent)
CColorMatches(target, tolerancePercent) ==
  /\ PureCall
  /\ Called("colorMatches",
            colorMatches(selectedColor.r, selectedColor.g, selectedColor.b,
                         target.r, target.g, target.b, tolerancePercent),
            [pixel |-> selectedColor, target |-> target, tolerance |-> tolerancePercent])

NextC ==
  \E target \in ColourSamples, tol \in TolerancePercents : CColorMatches(target, tol)

SpecColor == InitC /\ [][NextC]_vars

\* ------------------------------------------------------------------------
\* SpecOrder: reordering the layer list
\* ------------------------------------------------------------------------
\* The editor holds Upload1 decoded and three layers. A layer is dragged onto
\* a row of the list (handleDrop calls handleMoveLayerToIndex with the row's
\* index; the model also passes indexes outside the list, and an id no layer
\* has), and the change is undone and redone.

\* next.splice(i, 1): the array without its element number i (0-based)
SpliceOut(s, i) == SubSeq(s, 1, i) \o SubSeq(s, i + 2, Len(s))

\* next.splice(j, 0, x): the array with x inserted as element number j
SpliceIn(s, j, x) == SubSeq(s, 1, j) \o <<x>> \o SubSeq(s, j + 1, Len(s))

\* prev.findIndex((l) => l.id === layerId)
FindIndex(ls, layerId) ==
  IF HasLayer(ls, layerId)
  THEN (CHOOSE i \in 1..Len(ls) :
          /\ ls[i].id = layerId
          /\ \A k \in 1..(i - 1) : ls[k].id # layerId) - 1
  ELSE -1

\* the updater of handleMoveLayerToIndex without `if (fromIndex < target) target -= 1`
moveLayerToIndex_NoDecrement(prev, layerId, toIndex) ==
  LET fromIndex == FindIndex(prev, layerId)
      target == Max(0, Min(Len(prev) - 1, toIndex))
  IN IF fromIndex = -1 THEN prev
     ELSE IF fromIndex = target THEN prev
     ELSE SpliceIn(SpliceOut(prev, fromIndex), target, prev[fromIndex + 1])

\* the updater handleMoveLayerToIndex passes to setLayers
moveLayerToIndex(prev, layerId, toIndex) ==
  LET fromIndex == FindIndex(prev, layerId)
      clamped == Max(0, Min(Len(prev) - 1, toIndex))
      target == IF fromIndex < clamped THEN clamped - 1 ELSE clamped
  IN IF fromIndex = -1 THEN prev
     ELSE IF fromIndex = target THEN prev
     ELSE SpliceIn(SpliceOut(prev, fromIndex), target, prev[fromIndex + 1])

\* the layers of SpecBrush and a green one below them
OrderLayers ==
  Append(BrushLayers,
         [createLayer([r |-> 0, g |-> 255, b |-> 0], Len(BrushLayers) + 1) EXCEPT
            !.mask = createFullMask(DecodedImageData(Upload1).width,
                                    DecodedImageData(Upload1).height)])

InitO ==
  LET imageData == DecodedImageData(Upload1) IN
  /\ imageUrl = Upload1
  /\ dimensions = [width |-> imageData.width, height |-> imageData.height]
  /\ originalImageData = [data |-> NewTypedArray(imageData.data),
                          width |-> imageData.width, height |-> imageData.height]
  /\ layers = OrderLayers
  /\ selectedLayerId \in LayerIds(OrderLayers) \cup {NullId}
  /\ selectedColor = [r |-> 0, g |-> 255, b |-> 0]
  /\ toolMode = "none"
  /\ paintOpacity = 100
  /\ skipNextImageReadyRef = FALSE
  /\ pastRef = <<>>
  /\ futureRef = <<>>
  /\ loading = <<>>
  /\ canvas = imageData
  /\ isDrawingRef = FALSE
  /\ didMoveRef = FALSE
  /\ workingMaskRef = NullBuf
  /\ paintOverlayRef = ZeroBuf(imageData.width * imageData.height * 4)
  /\ imageLoaded = TRUE
  /\ DrawIdle
  /\ selectedLayerIdsForReconstruct = {}
  /\ ops = 0
  /\ HarnessIdle(Upload1)

OrderOp ==
  /\ ops < MaxMoves
  /\ ops' = ops + 1
  /\ UNCHANGED <<drawVars, selectedLayerIdsForReconstruct, hSerial, hTurns, heap>>

\* handleMoveLayerToIndex(layerId, toIndex)
HandleMoveLayerToIndex(layerId, toIndex) ==
  /\ OrderOp
  /\ Called("moveLayerToIndex", Null,
            [id |-> layerId, toIndex |-> toIndex, from |-> FindIndex(layers, layerId)])
  /\ PushCurrentState
  /\ layers' = moveLayerToIndex(layers, layerId, toIndex)
  /\ UNCHANGED <<imageUrl, dimensions, originalImageData, selectedLayerId, selectedColor,
                 toolMode, paintOpacity, skipNextImageReadyRef, canvasVars>>

\* handleUndo
OUndo ==
  /\ OrderOp
  /\ Called("undo", undo(history, getCurrentState).ret, Null)
  /\ ApplyHistoryResult(undo(history, getCurrentState))

\* handleRedo
ORedo ==
  /\ OrderOp
  /\ Called("redo", redo(history, getCurrentState).ret, Null)
  /\ ApplyHistoryResult(redo(history, getCurrentState))

NextO ==
  \/ \E id \in 1..(Len(layers) + 1), toIndex \in (-1)..(Len(layers) + 1) :
       HandleMoveLayerToIndex(id, toIndex)
  \/ OUndo
  \/ ORedo

SpecOrder == InitO /\ [][NextO]_vars

\* ------------------------------------------------------------------------
\* SpecMerge: mergePaintOverlay of utils/imageUtils.js on its own
\* ------------------------------------------------------------------------
\* Typed arrays are [ref, bytes] as in SpecAlias. The scratch overlay holds a
\* stroke: any buffer of w * h * 4 bytes, each 0, 128 or 255, for a 1 x 1 or a
\* 2 x 1 canvas. It is merged into nothing, and into what the call before
\* returned.
StrokeBytes == {0, 128, 255}
StrokeSizes == {<<1, 1>>, <<2, 1>>}

\* mergePaintOverlay that hands the stroke buffer back when there is no paint yet
mergePaintOverlayRef_ReturnsStroke(existing, newData, w, h, ref) ==
  IF existing = Null THEN newData
  ELSE [ref |-> ref, bytes |-> mergePaintOverlay(existing.bytes, newData.bytes, w, h)]

\* mergePaintOverlay(existing, newData, w, h), its result allocated as object `ref`
mergePaintOverlayRef(existing, newData, w, h, ref) ==
  [ref |-> ref,
   bytes |-> mergePaintOverlay(IF existing = Null THEN NullBuf ELSE existing.bytes,
                               newData.bytes, w, h)]

InitM ==
  /\ imageUrl = Null
  /\ dimensions = Null
  /\ originalImageData = Null
  /\ layers = <<>>
  /\ selectedLayerId = NullId
  /\ selectedColor = Null
  /\ toolMode = "paint"
  /\ paintOpacity = 100
  /\ skipNextImageReadyRef = FALSE
  /\ pastRef = <<>>
  /\ futureRef = <<>>
  /\ loading = <<>>
  /\ \E size \in StrokeSizes :
       /\ canvas = [width |-> size[1], height |-> size[2]]
       /\ paintOverlayRef \in [ref : {1},
                                bytes : [1..(size[1] * size[2] * 4) -> StrokeBytes]]
  /\ isDrawingRef = FALSE
  /\ didMoveRef = FALSE
  /\ workingMaskRef = NullBuf
  /\ imageLoaded = TRUE
  /\ DrawIdle
  /\ selectedLayerIdsForReconstruct = {}
  /\ ops = 0
  /\ hLast = [op |-> "none", ret |-> Null, arg |-> Null, upload |-> Null]
  /\ hSerial = 0
  /\ hTurns = 0
  /\ heap = 1

\* mergePaintOverlay(existing, overlay data, w, h), with no existing paint
\* or with the buffer the call before returned
MMerge(onPrevious) ==
  LET existing == IF onPrevious THEN hLast.ret ELSE Null IN
  /\ ops < MaxCalls
  /\ ops' = ops + 1
  /\ onPrevious => hLast.op = "mergePaintOverlay"
  /\ Called("mergePaintOverlay",
            mergePaintOverlayRef(existing, paintOverlayRef, canvas.width, canvas.height,
                                 heap + 1),
            [existing |-> existing, stroke |-> paintOverlayRef])
  /\ heap' = heap + 1
  /\ UNCHANGED <<appVars, histVars, canvasVars, drawVars, hSerial, hTurns>>

NextM ==
  \E onPrevious \in BOOLEAN : MMerge(onPrevious)

SpecMerge == InitM /\ [][NextM]_vars


\* ------------------------------------------------------------------------
\* Compositing: the redraw effect and the exports (SpecRender)
\* ------------------------------------------------------------------------
\* The blends divide bytes by 255 and the opacity slider by 100. The model
\* computes them with exact fractions [n, d] in lowest terms, d > 0, n >= 0,
\* where JavaScript computes in double precision; the inputs below are chosen
\* so that no value to be rounded lies within a rounding error of a half.
RECURSIVE GCD(_, _)
GCD(a, b) == IF b = 0 THEN a ELSE GCD(b, a % b)

Frac(n, d) ==
  LET g == GCD(n, d) IN [n |-> n \div g, d |-> d \div g]

Byte(k) == [n |-> k, d |-> 1]

FracMul(x, y) ==
  LET g1 == GCD(x.n, y.d)
      g2 == GCD(y.n, x.d)
  IN [n |-> (x.n \div g1) * (y.n \div g2), d |-> (x.d \div g2) * (y.d \div g1)]

FracAdd(x, y) ==
  LET g == GCD(x.d, y.d)
  IN Frac(x.n * (y.d \div g) + y.n * (x.d \div g), (x.d \div g) * y.d)

\* x / y, y > 0
FracDiv(x, y) == FracMul(x, [n |-> y.d, d |-> y.n])

\* 1 - x, x <= 1
OneMinus(x) == [n |-> x.d - x.n, d |-> x.d]

\* Math.round of a non-negative number: halves round up
MathRound(x) == (2 * x.n + x.d) \div (2 * x.d)

\* a store into a Uint8ClampedArray: halves round to even, at most 255
ToUint8Clamped(x) ==
  LET f == x.n \div x.d
      r2 == 2 * (x.n % x.d)
  IN Min(255, IF r2 > x.d THEN f + 1
              ELSE IF r2 < x.d THEN f
              ELSE IF f % 2 = 0 THEN f ELSE f + 1)

\* the four bytes of pixel idx of an RGBA buffer; of no buffer, four zeros
Rgba(data, idx) ==
  <<At(data, 4 * idx), At(data, 4 * idx + 1), At(data, 4 * idx + 2), At(data, 4 * idx + 3)>>

ByteColour(p) == <<Byte(p[1]), Byte(p[2]), Byte(p[3])>>

\* `mask[idx] === 1 && colorMatches(src..., layer.color..., tol) && src[i + 3] > 0`
\* with tol = layer.tolerance ?? 10 (every layer of the model has a tolerance)
PixelMatch(layer, p) ==
  /\ colorMatches(p[1], p[2], p[3], layer.color.r, layer.color.g, layer.color.b,
                  layer.tolerance)
  /\ p[4] > 0

\* "let lr = 0, lg = 0, lb = 0, la = 0; if (...) { lr = src[i]; ... }"
LayerContent(claimed, p) ==
  IF claimed THEN [c |-> ByteColour(p), a |-> p[4]]
  ELSE [c |-> <<Byte(0), Byte(0), Byte(0)>>, a |-> 0]

\* source-over of a colour with alpha tA onto a colour with alpha bA:
\* oA = tA + bA * (1 - tA), colour (top * tA + bot * bA * (1 - tA)) / oA,
\* alpha byte Math.round(oA * 255); oA > 0
SourceOver(top, tA, bot, bA) ==
  LET oA == FracAdd(tA, FracMul(bA, OneMinus(tA)))
  IN [c |-> [k \in 1..3 |->
               FracDiv(FracAdd(FracMul(top[k], tA),
                               FracMul(FracMul(bot[k], bA), OneMinus(tA))),
                       oA)],
      a |-> MathRound(FracMul(oA, Byte(255)))]

\* paint pixel p with alpha pA blended onto the layer pixel l; onto an empty
\* layer pixel the paint colour with the alpha byte emptyAlpha
BlendPaint(l, p, pA, emptyAlpha) ==
  IF p[4] > 0
  THEN IF l.a > 0
       THEN SourceOver(ByteColour(p), pA, l.c, Frac(l.a, 255))
       ELSE [c |-> ByteColour(p), a |-> emptyAlpha]
  ELSE l

\* utils/imageUtils.js
\* exportLayerToImageData(originalImageData, layer)
exportLayerToImageData(imageData, layer) ==
  LET src == imageData.data
      w == imageData.width
      h == imageData.height
  IN [data |-> [b \in 1..(w * h * 4) |->
                  LET idx == (b - 1) \div 4
                      p == Rgba(src, idx)
                      keep == layer.mask # NullBuf /\ At(layer.mask, idx) = 1
                      match == colorMatches(p[1], p[2], p[3], layer.color.r,
                                            layer.color.g, layer.color.b,
                                            layer.tolerance)
                  IN IF keep /\ match /\ p[4] > 0 THEN src[b] ELSE 0],
      width |-> w,
      height |-> h]

\* `layers.filter((l) => ids.has(l.id))`
SelectedLayers_All(ls, layerIds) ==
  ls

SelectedLayers(ls, layerIds) ==
  SelectSeq(ls, LAMBDA l : l.id \in layerIds)

\* the inner loop of exportReconstructedImageData for one pixel: the selected
\* layers j, j - 1, ..., 1 composited in that order onto result, which is
\* rounded and stored after every layer
RECURSIVE ReconstructPixel(_, _, _, _)
ReconstructPixel(j, selected, idx, acc) ==
  IF j = 0 THEN acc.result
  ELSE LET layer == selected[j]
           p == acc.src
           result == acc.result
           l0 == LayerContent(/\ layer.mask # NullBuf
                              /\ At(layer.mask, idx) = 1
                              /\ PixelMatch(layer, p), p)
           pd == Rgba(layer.paintData, idx)
           l == BlendPaint(l0, pd, Frac(pd[4], 255), pd[4])
           o == SourceOver(l.c, Frac(l.a, 255), ByteColour(result), Frac(result[4], 255))
       IN ReconstructPixel(j - 1, selected, idx,
            [acc EXCEPT !.result =
               IF l.a > 0
               THEN <<Min(255, MathRound(o.c[1])), Min(255, MathRound(o.c[2])),
                      Min(255, MathRound(o.c[3])), Min(255, o.a)>>
               ELSE result])

\* exportReconstructedImageData(originalImageData, layers, layerIds)
exportReconstructedImageData(imageData, ls, layerIds) ==
  LET selected == SelectedLayers(ls, layerIds)
      w == imageData.width
      h == imageData.height
      px == [idx \in 0..(w * h - 1) |->
               ReconstructPixel(Len(selected), selected, idx,
                                [src |-> Rgba(imageData.data, idx),
                                 result |-> <<0, 0, 0, 0>>])]
  IN [data |-> IF Len(selected) = 0 THEN ZeroBuf(w * h * 4)
               ELSE [b \in 1..(w * h * 4) |-> px[(b - 1) \div 4][((b - 1) % 4) + 1]],
      width |-> w,
      height |-> h]

\* components/CanvasEditor.jsx, the redraw effect. origData is the raster the
\* canvas element decoded (canvas); the adjustments are all 0.
\* `Math.max(0, Math.min(1, paintOpacity / 100))`
Opacity == Frac(Max(0, Min(100, paintOpacity)), 100)

\* Isolate: the selected layer's kept, matching pixels, the rest transparent
IsolatePixel_IgnoresMask(layer, mask, p, idx) ==
  IF PixelMatch(layer, p) THEN p ELSE <<0, 0, 0, 0>>

IsolatePixel(layer, mask, p, idx) ==
  IF At(mask, idx) = 1 /\ PixelMatch(layer, p) THEN p ELSE <<0, 0, 0, 0>>

\* Isolate: paint pixel p blended onto the output pixel out, stored into the
\* canvas raster (a Uint8ClampedArray)
IsolateBlend(out, p) ==
  LET pA == FracMul(Frac(p[4], 255), Opacity)
      ch(k) == ToUint8Clamped(
                 FracAdd(FracMul(FracMul(Byte(out[k]), OneMinus(pA)), Frac(out[4], 255)),
                         FracMul(Byte(p[k]), pA)))
  IN IF p[4] > 0
     THEN <<ch(1), ch(2), ch(3),
            MathRound(FracAdd(Byte(out[4]), FracMul(Byte(255 - out[4]), pA)))>>
     ELSE out

IsolateComposite(layer) ==
  LET mask == IF workingMaskRef # NullBuf THEN workingMaskRef ELSE layer.mask
      px == [idx \in 0..(canvas.width * canvas.height - 1) |->
               IsolateBlend(
                 IsolateBlend(IsolatePixel(layer, mask, Rgba(canvas.data, idx), idx),
                              Rgba(layer.paintData, idx)),
                 Rgba(paintOverlayRef, idx))]
  IN IF mask = NullBuf THEN canvas.data
     ELSE [b \in 1..(canvas.width * canvas.height * 4) |->
             px[(b - 1) \div 4][((b - 1) % 4) + 1]]

\* Whole: one layer's pixel, its colour content with its committed paint and,
\* for the selected layer, the stroke in progress blended on
WholeLayerPixel(layer, mask, p, idx) ==
  LET l0 == LayerContent(PixelMatch(layer, p) /\ At(mask, idx) = 1, p)
      pd == Rgba(layer.paintData, idx)
      pA == FracMul(Frac(pd[4], 255), Opacity)
      l1 == BlendPaint(l0, pd, pA, MathRound(FracMul(pA, Byte(255))))
      ov == IF layer.id = selectedLayerId THEN Rgba(paintOverlayRef, idx)
            ELSE <<0, 0, 0, 0>>
      t == FracMul(Frac(ov[4], 255), Opacity)
  IN BlendPaint(l1, ov, t, MathRound(FracMul(t, Byte(255))))

\* Whole: the loop `for (let j = layers.length - 1; j >= 0; j--)` for one
\* pixel, from layer j (counted from 1) down to the top layer
RECURSIVE WholeLayers(_, _, _)
WholeLayers(j, idx, acc) ==
  IF j = 0 THEN acc
  ELSE LET layer == layers[j]
           mask == IF layer.id = selectedLayerId /\ workingMaskRef # NullBuf
                   THEN workingMaskRef ELSE layer.mask
           p == Rgba(canvas.data, idx)
           l == WholeLayerPixel(layer, mask, p, idx)
           o == SourceOver(l.c, Frac(l.a, 255), acc.c, Frac(acc.a, 255))
       IN IF ~layer.visible \/ mask = NullBuf
          THEN WholeLayers(j - 1, idx, acc)
          ELSE WholeLayers(j - 1, idx,
                 [c |-> IF l.a > 0 THEN o.c ELSE acc.c,
                  a |-> IF l.a > 0 THEN o.a ELSE acc.a,
                  matchedAny |-> acc.matchedAny \/ PixelMatch(layer, p)])

\* Whole: "pixels not matched by any layer show the original image"
WholeBackground_Never(r, p) ==
  r

WholeBackground(r, p) ==
  IF ~r.matchedAny /\ p[4] > 0
  THEN LET o == SourceOver(r.c, Frac(r.a, 255), ByteColour(p), Frac(p[4], 255))
       IN [r EXCEPT !.c = o.c, !.a = o.a]
  ELSE r

WholeComposite ==
  LET px == [idx \in 0..(canvas.width * canvas.height - 1) |->
               LET r == WholeBackground(
                          WholeLayers(Len(layers), idx,
                                      [c |-> <<Byte(0), Byte(0), Byte(0)>>, a |-> 0,
                                       matchedAny |-> FALSE]),
                          Rgba(canvas.data, idx))
               IN <<Min(255, MathRound(r.c[1])), Min(255, MathRound(r.c[2])),
                    Min(255, MathRound(r.c[3])), Min(255, r.a)>>]
  IN [b \in 1..(canvas.width * canvas.height * 4) |->
        px[(b - 1) \div 4][((b - 1) % 4) + 1]]


\* The inputs: a 2 x 1 raster as the canvas decoded it, whose first pixel is
\* opaque red, opaque blue, translucent red or transparent and whose second
\* pixel is opaque blue; no layer, a layer with any mask, with or without
\* translucent paint on its first pixel, or that layer above a blue layer
\* which is whole or has its second pixel erased and painted over; the full
\* image or the top layer selected, with no stroke in progress, an erase
\* stroke that has cleared the working mask, or a paint stroke that has
\* stamped the first pixel; the opacity slider at 100 or 50.
Transparent == <<0, 0, 0, 0>>
TranslucentRed == <<255, 0, 0, 51>>
RenderRasters ==
  {p \o Blue : p \in {Red, Blue, TranslucentRed, Transparent}}

RenderMasks == [1..2 -> {0, 1}]

TopLayers ==
  {[createLayer(ct[1], 1) EXCEPT !.tolerance = ct[2], !.visible = v, !.mask = mk,
                                 !.paintData = pd] :
     ct \in {<<[r |-> 255, g |-> 0, b |-> 0], 10>>,
             <<[r |-> 0, g |-> 0, b |-> 255], 10>>,
             <<[r |-> 0, g |-> 0, b |-> 255], 100>>},
     v \in BOOLEAN,
     mk \in RenderMasks,
     pd \in {NullBuf, <<0, 255, 0, 51>> \o Transparent}}

BottomLayers ==
  {[createLayer([r |-> 0, g |-> 0, b |-> 255], 2) EXCEPT !.mask = e[1], !.paintData = e[2]] :
     e \in {<<<<1, 1>>, NullBuf>>, <<<<1, 0>>, Transparent \o Green>>}}

RenderLayers ==
  {<<>>} \cup {<<a>> : a \in TopLayers} \cup {<<a, b>> : a \in TopLayers, b \in BottomLayers}

\* the ids the Reconstruct checkboxes may hold; 3 names no layer
ReconstructIds == {{}, {1}, {1, 2}, {3}}

Strokes == {"none", "erase", "paint"}

InitR ==
  /\ \E data \in RenderRasters :
       /\ imageUrl = [kind |-> "file", png |-> [data |-> data, width |-> 2, height |-> 1]]
       /\ originalImageData = [data |-> data, width |-> 2, height |-> 1]
       /\ canvas = [data |-> data, width |-> 2, height |-> 1]
  /\ dimensions = [width |-> 2, height |-> 1]
  /\ layers \in RenderLayers
  /\ selectedLayerId \in {NullId} \cup (LayerIds(layers) \cap {1})
  /\ selectedColor = Null
  /\ paintOpacity \in {100, 50}
  /\ \E stroke \in Strokes :
       /\ stroke # "none" => selectedLayerId # NullId
       /\ toolMode = stroke
       /\ isDrawingRef = (stroke # "none")
       /\ workingMaskRef = IF stroke = "erase" THEN <<0, 0>> ELSE NullBuf
       /\ paintOverlayRef = IF stroke = "paint"
                            THEN <<255, 0, 0, PaintAlpha(paintOpacity)>> \o Transparent
                            ELSE ZeroBuf(8)
  /\ skipNextImageReadyRef = FALSE
  /\ pastRef = <<>>
  /\ futureRef = <<>>
  /\ loading = <<>>
  /\ didMoveRef = FALSE
  /\ imageLoaded = TRUE
  /\ DrawIdle
  /\ selectedLayerIdsForReconstruct = {}
  /\ ops = 0
  /\ HarnessIdle(imageUrl)

\* one composite or export: nothing of the editor changes
RenderOp ==
  /\ ops < MaxRenders
  /\ ops' = ops + 1
  /\ UNCHANGED <<appVars, histVars, canvasVars, drawVars, hSerial, hTurns, heap>>

\* the animation-frame callback of the redraw effect, with the App's
\* editorMode and the ids ticked for Reconstruct; viewMode is 'isolate' iff
\* selectedLayerId is set
RedrawFrame(editorMode, reconstructLayerIds) ==
  LET showReconstruct == editorMode = "reconstruct" /\ reconstructLayerIds # {}
      isolate == selectedLayerId # NullId /\ HasLayer(layers, selectedLayerId)
  IN /\ RenderOp
     /\ canvas # Null
     /\ imageLoaded
     /\ Called("redraw",
               IF showReconstruct
               THEN [mode |-> "reconstruct",
                     data |-> exportReconstructedImageData(canvas, layers,
                                                           reconstructLayerIds).data]
               ELSE IF isolate
               THEN [mode |-> "isolate",
                     data |-> IsolateComposite(FindLayer(layers, selectedLayerId))]
               ELSE [mode |-> "whole", data |-> WholeComposite],
               [editorMode |-> editorMode, ids |-> reconstructLayerIds])

\* handleDownloadAllLayers: one PNG per layer, or a toast
HandleDownloadAllLayers ==
  LET rasters == [k \in 1..Len(layers) |->
                    exportLayerToImageData(originalImageData, layers[k])]
  IN /\ RenderOp
     /\ Called("downloadAllLayers",
               IF originalImageData = Null \/ Len(layers) = 0
               THEN [rasters |-> <<>>, files |-> <<>>, toast |-> "No layers to download."]
               ELSE [rasters |-> rasters,
                     files |-> [k \in 1..Len(layers) |-> imageDataToDataUrl(rasters[k])],
                     toast |-> "Downloaded layers."],
               Null)

\* handleDownloadReconstructed, with the ids ticked for Reconstruct
HandleDownloadReconstructed_NoGuard(ids) ==
  LET reconstructed == exportReconstructedImageData(originalImageData, layers, ids)
  IN /\ RenderOp
     /\ Called("downloadReconstructed",
               [rasters |-> <<reconstructed>>,
                files |-> <<imageDataToDataUrl(reconstructed)>>,
                toast |-> "Downloaded reconstructed image."],
               [ids |-> ids])

HandleDownloadReconstructed(ids) ==
  LET reconstructed == exportReconstructedImageData(originalImageData, layers, ids)
  IN /\ RenderOp
     /\ Called("downloadReconstructed",
               IF originalImageData = Null \/ ids = {}
               THEN [rasters |-> <<>>, files |-> <<>>,
                     toast |-> "Select at least one layer."]
               ELSE [rasters |-> <<reconstructed>>,
                     files |-> <<imageDataToDataUrl(reconstructed)>>,
                     toast |-> "Downloaded reconstructed image."],
               [ids |-> ids])

NextR ==
  \/ \E editorMode \in {"split", "reconstruct"}, ids \in ReconstructIds :
       RedrawFrame(editorMode, ids)
  \/ HandleDownloadAllLayers
  \/ \E ids \in ReconstructIds : HandleDownloadReconstructed(ids)

SpecRender == InitR /\ [][NextR]_vars


\* ------------------------------------------------------------------------
\* getDominantColors on small images (SpecDominant)
\* ------------------------------------------------------------------------
\* The inputs: an image of 0 x 0, 1 x 1, 3 x 1 or 2 x 2 pixels, each pixel
\* opaque red, a red of the same bin, opaque blue, blue at alpha 128 (counted)
\* or green at alpha 127 (skipped); maxColors 1, 2 or 20 and a sample step of
\* 1 or 2.
DominantPixels ==
  {Red, <<250, 0, 0, 255>>, Blue, <<0, 0, 255, 128>>, <<0, 255, 0, 127>>}

DominantSizes == {<<0, 0>>, <<1, 1>>, <<3, 1>>, <<2, 2>>}

RECURSIVE Flatten(_)
Flatten(ps) == IF ps = <<>> THEN <<>> ELSE Head(ps) \o Flatten(Tail(ps))

DominantImages ==
  UNION {{[data |-> Flatten(ps), width |-> s[1], height |-> s[2]] :
            ps \in [1..(s[1] * s[2]) -> DominantPixels]} : s \in DominantSizes}

InitDom ==
  /\ imageUrl = Null
  /\ dimensions = Null
  /\ originalImageData \in DominantImages
  /\ layers = <<>>
  /\ selectedLayerId = NullId
  /\ selectedColor = Null
  /\ toolMode = "none"
  /\ paintOpacity = 100
  /\ skipNextImageReadyRef = FALSE
  /\ pastRef = <<>>
  /\ futureRef = <<>>
  /\ loading = <<>>
  /\ canvas = Null
  /\ isDrawingRef = FALSE
  /\ didMoveRef = FALSE
  /\ workingMaskRef = NullBuf
  /\ paintOverlayRef = NullBuf
  /\ imageLoaded = FALSE
  /\ DrawIdle
  /\ selectedLayerIdsForReconstruct = {}
  /\ ops = 0
  /\ HarnessIdle(Null)

\* getDominantColors(imageData, maxColors, sampleStep)
DGetDominantColors(maxColors, sampleStep) ==
  /\ PureCall
  /\ Called("getDominantColors",
            getDominantColors(originalImageData, maxColors, sampleStep),
            [maxColors |-> maxColors, sampleStep |-> sampleStep])

\* the layers handleImageReady builds from the image:
\* getDominantColors(imageData, 20, 10), one layer per colour
DNewLayers ==
  /\ PureCall
  /\ Called("newLayers", NewLayersFor(originalImageData), Null)

NextDom ==
  \/ \E maxColors \in {1, 2, 20}, sampleStep \in {1, 2} :
       DGetDominantColors(maxColors, sampleStep)
  \/ DNewLayers

SpecDominant == InitDom /\ [][NextDom]_vars


\* ------------------------------------------------------------------------
\* Paint and transforms (SpecPaintGeom)
\* ------------------------------------------------------------------------
\* The editor of SpecBrush with the Paint tool at full opacity and the top
\* layer selected, with or without paint committed on that layer's first
\* pixel, under paint strokes, the transforms and undo / redo.
InitP ==
  LET imageData == DecodedImageData(Upload1)
      painted == paintColorAt(ZeroBuf(imageData.width * imageData.height * 4), 0, 0, 1,
                              imageData.width, imageData.height, 100)
  IN
  /\ imageUrl = Upload1
  /\ dimensions = [width |-> imageData.width, height |-> imageData.height]
  /\ originalImageData = [data |-> NewTypedArray(imageData.data),
                          width |-> imageData.width, height |-> imageData.height]
  /\ \E pd \in {NullBuf, painted} :
       /\ layers = [BrushLayers EXCEPT ![1].paintData = pd]
       /\ paintOverlayRef = SyncOverlay(ZeroBuf(imageData.width * imageData.height * 4),
                                        TRUE, layers, 1)
  /\ selectedLayerId = 1
  /\ selectedColor = [r |-> 0, g |-> 0, b |-> 255]
  /\ toolMode = "paint"
  /\ paintOpacity = 100
  /\ skipNextImageReadyRef = FALSE
  /\ pastRef = <<>>
  /\ futureRef = <<>>
  /\ loading = <<>>
  /\ canvas = imageData
  /\ isDrawingRef = FALSE
  /\ didMoveRef = FALSE
  /\ workingMaskRef = NullBuf
  /\ imageLoaded = TRUE
  /\ DrawIdle
  /\ selectedLayerIdsForReconstruct = {}
  /\ ops = 0
  /\ HarnessIdle(Upload1)

\* at most MaxPaintOps user operations; decodes complete whenever they do
NextP ==
  \/ /\ ops < MaxPaintOps
     /\ \E c \in CanvasCoords, size \in BrushSizes : HandlePointerDown(c[1], c[2], size)
  \/ /\ ops < MaxPaintOps
     /\ \E c \in CanvasCoords, size \in BrushSizes : HandlePointerMove(c[1], c[2], size)
  \/ /\ ops < MaxPaintOps
     /\ \E c \in CanvasCoords : HandlePointerUp(c[1], c[2])
  \/ /\ ops < MaxPaintOps
     /\ \E d \in RotateDegrees : HandleRotate(d)
  \/ /\ ops < MaxPaintOps
     /\ \E f \in FlipAxes : HandleFlip(f[1], f[2])
  \/ /\ ops < MaxPaintOps
     /\ \E r \in (IF dimensions = Null THEN {}
                  ELSE CropRects(dimensions.width, dimensions.height)) : HandleCrop(r)
  \/ /\ ops < MaxPaintOps
     /\ HandleUndo
  \/ /\ ops < MaxPaintOps
     /\ HandleRedo
  \/ \E i \in 1..Len(loading) : ImageReady(i)

SpecPaintGeom == InitP /\ [][NextP]_vars


\* ------------------------------------------------------------------------
\* SpecPanel: the layers panel with its Reconstruct checkboxes
\* ------------------------------------------------------------------------
\* a handler of the panel that changes nothing but the ticked ids
PanelSelection(op) ==
  /\ PanelOp
  /\ Called(op, Null, Null)
  /\ UNCHANGED <<imageUrl, dimensions, originalImageData, layers, selectedLayerId,
                 selectedColor, toolMode, paintOpacity, skipNextImageReadyRef, histVars,
                 canvasVars>>

\* toggleReconstructLayer(id): the checkbox of a layer row
ToggleReconstructLayer(id) ==
  /\ PanelSelection("toggleReconstruct")
  /\ selectedLayerIdsForReconstruct' =
       IF id \in selectedLayerIdsForReconstruct
       THEN selectedLayerIdsForReconstruct \ {id}
       ELSE selectedLayerIdsForReconstruct \cup {id}

\* selectAllReconstruct
SelectAllReconstruct ==
  /\ PanelSelection("selectAllReconstruct")
  /\ selectedLayerIdsForReconstruct' = LayerIds(layers)

\* clearReconstructSelection
ClearReconstructSelection ==
  /\ PanelSelection("clearReconstruct")
  /\ selectedLayerIdsForReconstruct' = {}

NextPanel ==
  \/ \E u \in Uploads : HandleImageLoad(u)
  \/ \E i \in 1..Len(loading) : ImageReady(i)
  \/ HandleUndo
  \/ HandleRedo
  \/ HandleRotate(90)
  \/ HandleAddLayer
  \/ \E id \in LayerIds(layers) : HandleDeleteLayer(id)
  \/ \E id \in LayerIds(layers) \cup {NullId} : HandleSelectLayer(id)
  \/ SetToolMode("eyedropper")
  \/ \E c \in CanvasCoords : HandlePointerDown(c[1], c[2], 1)
  \/ \E c \in CanvasCoords : HandlePointerUp(c[1], c[2])
  \/ \E id \in LayerIds(layers) : ToggleReconstructLayer(id)
  \/ SelectAllReconstruct
  \/ ClearReconstructSelection

SpecPanel == Init /\ [][NextPanel]_vars

\* ------------------------------------------------------------------------
\* Properties of the hook (SpecHistory)
\* ------------------------------------------------------------------------
\* C3: the undo stack and the redo stack never hold more than 30 entries
\* each, whatever sequence of push, undo, redo and clear has run.
C3_StacksBounded ==
  /\ Len(pastRef) <= 30
  /\ Len(futureRef) <= 30

\* 31 pushes, then undos, then redos that refill the undo stack to its cap
C3_Witness ==
  /\ hSerial = 31
  /\ hLast.op = "redo"
  /\ hLast.ret # Null
  /\ Len(pastRef) = 30

\* C4: an undo right after push(S), called with the live state S2, returns a
\* snapshot equal to S; the redo right after that undo returns a snapshot
\* equal to S2.
C4_UndoRedoRoundTrip ==
  /\ [][(hLast.op = "push" /\ hLast'.op = "undo") => hLast'.ret = hLast.arg]_vars
  /\ [][(hLast.op = "undo" /\ hLast.ret # Null /\ hLast'.op = "redo")
          => hLast'.ret = hLast.arg]_vars

\* push(S), undo(S2), redo: the redo handed back S2, with older entries
\* below S on the undo stack
C4_Witness ==
  /\ hLast.op = "redo"
  /\ hLast.ret = ClientState(3)
  /\ hTurns = 2
  /\ hSerial = 3
  /\ Len(pastRef) = 3

\* C5: after n pushes the undo stack holds the last Min(n, 30) pushed states
\* in push order (the 31st push drops the first); undos that follow return
\* them newest first, and the undo after the last of them returns null.
C5_CapacityThirty ==
  /\ []((hTurns = 0 /\ hLast.op = "push")
          => pastRef = [i \in 1..Min(hSerial, 30) |->
                          ClientState(hSerial - Min(hSerial, 30) + i - 1)])
  /\ [][(hTurns' = 1 /\ hLast'.op = "undo" /\ hSerial >= 1)
          => hLast'.ret = IF Len(futureRef) < Min(hSerial, 30)
                          THEN ClientState(hSerial - 1 - Len(futureRef))
                          ELSE Null]_vars

\* 31 pushes, 30 undos that returned a state, and a 31st that returned null
C5_Witness ==
  /\ hSerial = 31
  /\ hTurns = 1
  /\ hLast.op = "undo"
  /\ hLast.ret = Null
  /\ Len(futureRef) = 30

\* C6: after a push the redo stack is empty and canRedo is false; while the
\* redo stack is empty redo returns null, and only an undo makes it non-empty.
C6_PushClearsFuture ==
  /\ [](hLast.op = "push" => (Len(futureRef) = 0 /\ ~canRedo))
  /\ [][(Len(futureRef) = 0 /\ hLast'.op = "redo")
          => (hLast'.ret = Null /\ Len(futureRef') = 0)]_vars
  /\ [][(Len(futureRef) = 0 /\ Len(futureRef') > 0) => hLast'.op = "undo"]_vars

\* push, push, undo, push, redo: the push found a redo entry and the redo
\* after it returned null
C6_Witness ==
  /\ hLast.op = "redo"
  /\ hLast.ret = Null
  /\ hLast.arg = ClientState(3)
  /\ hTurns = 3
  /\ hSerial = 3
  /\ Len(pastRef) = 2

\* ------------------------------------------------------------------------
\* Properties of the editor (Spec)
\* ------------------------------------------------------------------------
\* the layer list handleImageReady is to build for a decoded raster, ids aside
LayersMatch(ls, imageData) ==
  LET colors == getDominantColors(imageData, DOMINANT_MAX_COLORS, DOMINANT_SAMPLE_STEP) IN
  /\ Len(ls) = Len(colors)
  /\ \A k \in 1..Len(ls) :
       /\ ls[k].color = colors[k]
       /\ ls[k].mask = createFullMask(imageData.width, imageData.height)

\* C1: when the image-ready callback of a freshly loaded image runs, the
\* layer list becomes one layer per colour of getDominantColors for that
\* image, in the extractor's order, each with an all-ones mask of the image's
\* size, whatever preceded the load. (Stated for the plainest case: no other
\* decode is pending, and the callback finds the editor as handleImageLoad
\* left it.)
C1_FreshLoadBuildsLayers ==
  [][(/\ hLast'.op = "imageReady"
      /\ hLast'.arg.fresh
      /\ Len(loading) = 1
      /\ imageUrl = hLast.upload
      /\ dimensions = Null
      /\ originalImageData = Null
      /\ layers = <<>>)
       => LayersMatch(layers', canvas')]_vars

\* C2: every layer's mask has width * height entries of the current
\* dimensions, in every reachable state.
C2_MaskLengthIsArea ==
  \A i \in 1..Len(layers) :
    /\ dimensions # Null
    /\ Len(layers[i].mask) = dimensions.width * dimensions.height

\* C7: undo with an empty undo stack, and redo with an empty redo stack,
\* return null and leave both stacks, the image, the dimensions, the layers
\* and the selection as they were.
C7_EmptyStackNoOp ==
  /\ [][(hLast'.op = "undo" /\ Len(pastRef) = 0)
          => (/\ hLast'.ret = Null
              /\ UNCHANGED <<pastRef, futureRef, imageUrl, dimensions, originalImageData,
                             layers, selectedLayerId>>)]_vars
  /\ [][(hLast'.op = "redo" /\ Len(futureRef) = 0)
          => (/\ hLast'.ret = Null
              /\ UNCHANGED <<pastRef, futureRef, imageUrl, dimensions, originalImageData,
                             layers, selectedLayerId>>)]_vars

\* a second undo, after the first emptied the undo stack: it returned null
\* with a redo entry and layers in place
C7_Witness ==
  /\ hLast.op = "undo"
  /\ hLast.ret = Null
  /\ Len(pastRef) = 0
  /\ Len(futureRef) = 1
  /\ Len(layers) > 0

\* the colours of a raster's opaque pixels
Colours(imageData) ==
  {<<At(imageData.data, 4 * k), At(imageData.data, 4 * k + 1), At(imageData.data, 4 * k + 2)>> :
     k \in {n \in 0..(imageData.width * imageData.height - 1) :
              At(imageData.data, 4 * n + 3) > 0}}

\* The uploads have no colour in common and a transform keeps the colours, so
\* a raster comes from an upload iff its colours are among the upload's.
FromUpload(imageData, upload) == Colours(imageData) \subseteq Colours(DecodedImageData(upload))

\* C9: handleImageLoad leaves both stacks empty, and every state an undo or
\* redo returns afterwards holds the image of the latest upload: its URL, its
\* raster and its dimensions are not those of an image loaded before.
C9_LoadForgetsEarlierImages ==
  /\ [](hLast.op = "load" => (Len(pastRef) = 0 /\ Len(futureRef) = 0))
  /\ [][(hLast'.op \in {"undo", "redo"} /\ hLast'.ret # Null)
          => (/\ FromUpload(DecodedImageData(hLast'.ret.imageUrl), hLast'.upload)
              /\ hLast'.ret.originalImageData # Null
                   => FromUpload(hLast'.ret.originalImageData, hLast'.upload))]_vars

\* C10: rotate, flip and crop each push one snapshot of the state they start
\* from (dropping the oldest beyond 30) and empty the redo stack; an undo
\* right after the transform, or right after the transform's decode, puts
\* back the image URL, the raster, the dimensions and the layers with every
\* mask as they were before the transform.
C10_TransformUndoRestores ==
  /\ [][hLast'.op \in Transforms
          => (/\ pastRef' = SliceLast(Append(pastRef, hLast'.arg), 30)
              /\ hLast'.arg = [imageUrl |-> imageUrl, dimensions |-> dimensions,
                               originalImageData |-> originalImageData, layers |-> layers]
              /\ futureRef' = <<>>)]_vars
  /\ [][(hLast'.op = "undo"
           /\ \/ hLast.op \in Transforms
              \/ (hLast.op = "imageReady" /\ hLast.arg.after # Null))
          => LET before == IF hLast.op \in Transforms THEN hLast.arg ELSE hLast.arg.after IN
             /\ imageUrl' = before.imageUrl
             /\ originalImageData' = before.originalImageData
             /\ dimensions' = before.dimensions
             /\ layers' = before.layers]_vars

\* load, decode, a transform that changed the dimensions, and the undo that
\* put the earlier dimensions and layers back
C10_Witness ==
  /\ hLast.op = "undo"
  /\ hLast.ret # Null
  /\ ops = 3
  /\ Len(futureRef) = 1
  /\ futureRef[1].dimensions # dimensions
  /\ Len(layers) > 0
  /\ dimensions = [width |-> 3, height |-> 1]

\* ------------------------------------------------------------------------
\* Properties of the hook's snapshots (SpecAlias)
\* ------------------------------------------------------------------------
\* the history entries, past first
Entries == pastRef \o futureRef

\* C8: no typed array of a history entry is an object the live state holds,
\* or one another entry holds; and a write into a buffer of the live state
\* (after a push, or after an undo or redo handed the state back) changes no
\* entry of either stack.
C8_SnapshotsShareNothing ==
  /\ [](\A k \in 1..Len(Entries) :
          /\ Refs(Entries[k]) \cap Refs(getCurrentState) = {}
          /\ \A j \in 1..Len(Entries) : j # k => Refs(Entries[k]) \cap Refs(Entries[j]) = {})
  /\ [][hLast'.op = "mutate" => (pastRef' = pastRef /\ futureRef' = futureRef)]_vars

\* a write into the mask the last undo handed back, with an entry on each
\* stack whose mask still has its first value
C8_Witness ==
  /\ hLast.op = "mutate"
  /\ Len(pastRef) = 1
  /\ Len(futureRef) = 1
  /\ layers[1].mask.ref = hLast.arg
  /\ layers[1].mask.bytes # pastRef[1].layers[1].mask.bytes
  /\ layers[1].mask.bytes # futureRef[1].layers[1].mask.bytes

\* ------------------------------------------------------------------------
\* Properties of the geometric transforms (SpecGeom)
\* ------------------------------------------------------------------------
\* the RGBA value of pixel number i of a raster
PixelAt(imageData, i) ==
  <<At(imageData.data, 4 * i), At(imageData.data, 4 * i + 1),
    At(imageData.data, 4 * i + 2), At(imageData.data, 4 * i + 3)>>

\* every pixel d of the result holds the RGBA value of a source pixel s, and
\* the result mask holds at d the bit the source mask holds at s
MaskFollowsImage(image, mask, image2, mask2) ==
  /\ Len(mask2) = image2.width * image2.height
  /\ Len(image2.data) = 4 * image2.width * image2.height
  /\ \A d \in 0..(image2.width * image2.height - 1) :
       \E s \in 0..(image.width * image.height - 1) :
         /\ PixelAt(image2, d) = PixelAt(image, s)
         /\ At(mask2, d) = At(mask, s)

\* C11: for every raster size, every rotation (90, -90, 180), every flip
\* (horizontal, vertical, both) and every in-bounds crop rectangle, the mask
\* transform moves the bit of source pixel (x, y) to the destination pixel to
\* which the image transform moves the RGBA value of (x, y).
C11_MaskFollowsImage ==
  [][hLast'.op \in Transforms
       => MaskFollowsImage(originalImageData, layers[1].mask,
                           originalImageData', layers'[1].mask)]_vars

\* a 3 x 2 raster with a mask that is neither all ones nor all zeros, rotated
\* by 90 degrees into a 2 x 3 raster
C11_Witness ==
  /\ hLast.op = "rotate"
  /\ hLast.arg.param = 90
  /\ ops = 1
  /\ hLast.arg.before.image = TaggedImage(3, 2)
  /\ hLast.arg.before.mask = <<1, 0, 0, 1, 1, 0>>
  /\ dimensions = [width |-> 2, height |-> 3]

\* the editor's raster, dimensions and mask are those the transform before
\* the last one started from
BackToBefore(before) ==
  /\ originalImageData' = before.image
  /\ dimensions' = [width |-> before.image.width, height |-> before.image.height]
  /\ layers'[1].mask = before.mask

\* C12: on every raster and mask, square or not, rotating by 90 and then by
\* -90 gives back the first buffer and dimensions, rotating by 180 twice gives
\* back the first, and the same flip applied twice gives back the first.
C12_TransformsInvert ==
  /\ [][(hLast.op = "rotate" /\ hLast'.op = "rotate"
           /\ hLast.arg.param = 90 /\ hLast'.arg.param = -90)
          => BackToBefore(hLast.arg.before)]_vars
  /\ [][(hLast.op = "rotate" /\ hLast'.op = "rotate"
           /\ hLast.arg.param = 180 /\ hLast'.arg.param = 180)
          => BackToBefore(hLast.arg.before)]_vars
  /\ [][(hLast.op = "flip" /\ hLast'.op = "flip" /\ hLast'.arg.param = hLast.arg.param)
          => BackToBefore(hLast.arg.before)]_vars

\* a 3 x 2 raster rotated by 90 and then by -90, with a mask that is neither
\* all ones nor all zeros
C12_Witness ==
  /\ hLast.op = "rotate"
  /\ hLast.arg.param = -90
  /\ hLast.arg.prev.op = "rotate"
  /\ hLast.arg.prev.param = 90
  /\ ops = 2
  /\ dimensions = [width |-> 3, height |-> 2]
  /\ layers[1].mask = <<1, 0, 0, 1, 1, 0>>
  /\ hLast.arg.before.image.width = 2

\* ------------------------------------------------------------------------
\* Properties of the brush (SpecBrush)
\* ------------------------------------------------------------------------
\* the steps that end a stroke
StrokeEnds == {"pointerUp", "pointerLeave"}

\* an erase stroke is in progress on the selected layer
ErasingSelected ==
  /\ isDrawingRef
  /\ toolMode = "erase"
  /\ workingMaskRef # NullBuf
  /\ selectedLayerId # NullId
  /\ HasLayer(layers, selectedLayerId)

\* a paint stroke is in progress on the selected layer
PaintingSelected ==
  /\ isDrawingRef
  /\ toolMode = "paint"
  /\ paintOverlayRef # NullBuf
  /\ selectedLayerId # NullId
  /\ HasLayer(layers, selectedLayerId)

\* C13: every erase stroke on a selected layer that ends, by pointer release
\* or by the pointer leaving the canvas, whether or not the pointer moved
\* between press and release, makes the scratch mask that layer's mask.
C13_EraseStrokeCommits ==
  [][(ErasingSelected /\ hLast'.op \in StrokeEnds)
       => /\ HasLayer(layers', selectedLayerId)
          /\ FindLayer(layers', selectedLayerId).mask = workingMaskRef]_vars

\* C14: a committed erase stroke pushes exactly one snapshot, the state before
\* the commit, however many pointer moves it had; the release after a pointer
\* leave pushes nothing more; and the undo right after the stroke puts every
\* layer, so the erased layer's mask, back to what it was at pointer down.
C14_OneSnapshotPerStroke ==
  /\ [][(ErasingSelected /\ hLast'.op \in StrokeEnds /\ hLast'.arg.committed = "mask")
          => pastRef' = SliceLast(Append(pastRef, getCurrentState), 30)]_vars
  /\ [][(ErasingSelected /\ hLast'.op \in {"pointerDown", "pointerMove"})
          => pastRef' = pastRef]_vars
  /\ [][(hLast.op = "pointerLeave" /\ hLast'.op = "pointerUp")
          => (pastRef' = pastRef /\ layers' = layers)]_vars
  /\ [][(/\ hLast.op \in StrokeEnds
         /\ hLast.arg.committed = "mask"
         /\ hLast.arg.stroke # Null
         /\ hLast'.op = "undo")
          => layers' = hLast.arg.stroke.start]_vars

\* an erase stroke of a press and two moves that the pointer's leaving
\* committed, the release after it, and the undo that put the mask back
C14_Witness ==
  /\ hLast.op = "undo"
  /\ hLast.ret # Null
  /\ ops = 5
  /\ Len(pastRef) = 0
  /\ Len(futureRef) = 1
  /\ toolMode = "erase"
  /\ selectedLayerId # NullId
  /\ FindLayer(layers, selectedLayerId).mask = <<1, 1, 1>>
  /\ FindLayer(futureRef[1].layers, selectedLayerId).mask = <<0, 0, 1>>

\* C15: when the pointer leaves the canvas during a paint stroke on a
\* selected layer, the scratch overlay is merged into that layer's committed
\* paint, as on pointer release.
C15_LeaveCommitsPaint ==
  [][(PaintingSelected /\ didMoveRef /\ hLast'.op = "pointerLeave")
       => FindLayer(layers', selectedLayerId).paintData
            = mergePaintOverlay(FindLayer(layers, selectedLayerId).paintData,
                                paintOverlayRef, canvas.width, canvas.height)]_vars

\* the four bytes of pixel number k of a paint buffer (zeros without a buffer)
PaintAt(data, k) == <<At(data, 4 * k), At(data, 4 * k + 1), At(data, 4 * k + 2),
                      At(data, 4 * k + 3)>>

\* C16: after a paint stroke is committed the scratch overlay is all zero,
\* and the next commit changes the committed paint only at pixels the new
\* stroke stamped.
C16_OverlayClearedAfterCommit ==
  /\ []((hLast.op = "pointerUp" /\ hLast.arg.committed = "paint")
          => paintOverlayRef = ZeroBuf(Len(paintOverlayRef)))
  /\ [][(/\ PaintingSelected
         /\ hLast'.op = "pointerUp"
         /\ hLast'.arg.committed = "paint"
         /\ hLast'.arg.stroke # Null)
          => \A k \in 0..(canvas.width * canvas.height - 1) :
               k \notin hLast'.arg.stroke.stamped
                 => PaintAt(FindLayer(layers', selectedLayerId).paintData, k)
                      = PaintAt(FindLayer(layers, selectedLayerId).paintData, k)]_vars

\* the scratch overlay holds paint that is not the selected layer's committed
\* paint
UncommittedPaint ==
  /\ paintOverlayRef # NullBuf
  /\ OverlayHasContent(paintOverlayRef)
  /\ paintOverlayRef # SelectedPaintData(layers, selectedLayerId)

\* C17: whenever the selection changes (between strokes) while the scratch
\* overlay holds uncommitted paint, that paint is merged into a layer's
\* committed paint by the same step; it is never overwritten or zeroed
\* without that.
C17_SelectionChangeCommits ==
  [][(UncommittedPaint /\ ~isDrawingRef /\ selectedLayerId' # selectedLayerId)
       => \E i \in 1..Len(layers) :
            /\ HasLayer(layers', layers[i].id)
            /\ FindLayer(layers', layers[i].id).paintData
                 = mergePaintOverlay(layers[i].paintData, paintOverlayRef,
                                     canvas.width, canvas.height)]_vars

\* what can act while the pointer is held down on the canvas: the keyboard
KeyboardOps == {"undo", "redo", "tolerance"}

\* C19: while a brush stroke is in progress (here: right after a stamp of
\* it) no other operation, in particular keyboard undo and redo and a
\* tolerance change, changes the committed mask or paint of the layer being
\* edited, and the commit at the stroke's end does not overwrite what such an
\* operation produced: an erase stroke only clears pixels, so its commit never
\* sets a pixel of the layer's current mask back to 1.
C19_StrokeOwnsLayer ==
  /\ [][(/\ ErasingSelected \/ PaintingSelected
         /\ StrokeSoFar # Null
         /\ hLast'.op \in KeyboardOps)
          => /\ HasLayer(layers', selectedLayerId)
             /\ FindLayer(layers', selectedLayerId).mask
                  = FindLayer(layers, selectedLayerId).mask
             /\ FindLayer(layers', selectedLayerId).paintData
                  = FindLayer(layers, selectedLayerId).paintData]_vars
  /\ [][(/\ ErasingSelected
         /\ hLast'.op \in StrokeEnds
         /\ HasLayer(layers', selectedLayerId))
          => \A i \in DOMAIN FindLayer(layers', selectedLayerId).mask :
               FindLayer(layers', selectedLayerId).mask[i] = 1
                 => FindLayer(layers, selectedLayerId).mask[i] = 1]_vars

\* ------------------------------------------------------------------------
\* Properties of an erase stroke over objects (SpecStroke)
\* ------------------------------------------------------------------------
\* the masks of a list of layers, objects and bytes
Masks(ls) == [i \in 1..Len(ls) |-> ls[i].mask]

\* C18: pointer down and pointer move of an erase stroke write only to the
\* working mask, which is an object of its own: the mask of the layer being
\* edited and the mask of every other layer are what they were before the
\* step, and no layer holds the working mask's object.
C18_StampsOnlyWorkingMask ==
  [][hLast'.op \in {"pointerDown", "pointerMove"}
       => /\ Masks(layers') = Masks(layers)
          /\ \A i \in 1..Len(layers') :
               layers'[i].mask # Null => layers'[i].mask.ref # workingMaskRef'.ref]_vars

\* a pointer move of a second stroke, after the first one was committed: the
\* working mask now differs from the mask of the selected layer
C18_Witness ==
  /\ hLast.op = "pointerMove"
  /\ Len(pastRef) = 1
  /\ Len(layers) = 2
  /\ workingMaskRef.bytes # FindLayer(layers, selectedLayerId).mask.bytes
  /\ FindLayer(layers, selectedLayerId).mask.bytes # createFullMask(canvas.width, canvas.height)

\* ------------------------------------------------------------------------
\* Properties of the redraw (Spec)
\* ------------------------------------------------------------------------
\* What the redraw effect composes: the decoded image the canvas holds, the
\* canvas size, and the layers of the current render. They belong to one
\* editor state when the image is the decode of the current imageUrl, the
\* dimensions are its size and every mask has one entry per pixel of it.
RedrawUsesOneState ==
  /\ imageUrl # Null
  /\ canvas # Null
  /\ canvas = DecodedImageData(imageUrl)
  /\ dimensions = [width |-> canvas.width, height |-> canvas.height]
  /\ \A i \in 1..Len(layers) :
       Len(layers[i].mask) = canvas.width * canvas.height

\* C20: every redraw after a rotate, flip, crop, undo or redo composes the
\* image buffer, dimensions and layer masks of one and the same editor state,
\* also while a new image is still being decoded: when the onload of an Image
\* that one of these operations created makes the canvas redraw (all pending
\* decodes being theirs), what is drawn is one editor state.
C20_RedrawUsesOneState ==
  [][(/\ \A k \in 1..Len(loading) : ~loading[k].fresh
      /\ hLast'.op = "imageReady")
       => RedrawUsesOneState']_vars

\* ------------------------------------------------------------------------
\* Properties of the redraw scheduling (SpecDraw)
\* ------------------------------------------------------------------------
\* C21: at most one composite is pending at any time, and scheduleDraw never
\* has more than one animation-frame callback outstanding; a newly requested
\* redraw cancels the one requested before it that has not run yet: after
\* the effect ran, the only pending composite is the one it just requested.
C21_OneCompositePending ==
  /\ [](Cardinality(Pending("redraw")) <= 1)
  /\ [](Cardinality(Pending("scheduleDraw")) <= 1)
  /\ [][hLast'.op = "redrawEffect"
          => \A i \in 1..Len(rafCallbacks') :
               rafCallbacks'[i].kind = "redraw" => rafCallbacks'[i].id = redrawRafId']_vars

\* the effect ran while the composite of its previous run was still pending,
\* and a pointer sample arrived while scheduleDraw's callback was outstanding
C21_Witness ==
  /\ hLast.op = "redrawEffect"
  /\ hLast.arg.cancelled
  /\ rafScheduledRef
  /\ Cardinality(Pending("redraw")) = 1
  /\ Cardinality(Pending("scheduleDraw")) = 1

\* ------------------------------------------------------------------------
\* Properties of colorMatches (SpecColor)
\* ------------------------------------------------------------------------
\* C30: a colour matches itself under every tolerance t >= 0, t = 0 included.
C30_ColourMatchesItself ==
  [](hLast.op = "colorMatches" /\ hLast.arg.pixel = hLast.arg.target
       => hLast.ret = TRUE)

\* a colour compared with itself at tolerance 0
C30_Witness ==
  /\ hLast.op = "colorMatches"
  /\ hLast.arg.pixel = hLast.arg.target
  /\ hLast.arg.tolerance = 0
  /\ hLast.ret = TRUE

\* ------------------------------------------------------------------------
\* Properties of the layer order (SpecOrder)
\* ------------------------------------------------------------------------
\* the layers other than the one with this id, in their order
Others(ls, id) == SelectSeq(ls, LAMBDA l : l.id # id)

\* C29: handleMoveLayerToIndex(id, toIndex) yields a permutation of the same
\* layers in which all other layers keep their relative order and the moved
\* layer ends at index t - 1 when its old index is below t and at index t
\* otherwise, t being toIndex clamped to [0, n - 1]; an unknown id leaves the
\* order unchanged.
C29_MoveToIndex ==
  [][hLast'.op = "moveLayerToIndex"
       => LET id == hLast'.arg.id
              n == Len(layers)
              t == Max(0, Min(n - 1, hLast'.arg.toIndex))
              old == FindIndex(layers, id)
          IN IF old = -1 THEN layers' = layers
             ELSE /\ Len(layers') = n
                  /\ \A i \in 1..n : \E k \in 1..n : layers'[k] = layers[i]
                  /\ Others(layers', id) = Others(layers, id)
                  /\ FindIndex(layers', id) = IF old < t THEN t - 1 ELSE t]_vars

\* the top layer dropped on the last row: it ends on the row before it
C29_Witness ==
  /\ hLast.op = "moveLayerToIndex"
  /\ hLast.arg.from = 0
  /\ hLast.arg.toIndex = Len(layers) - 1
  /\ Len(layers) = 3
  /\ FindIndex(layers, hLast.arg.id) = 1

\* ------------------------------------------------------------------------
\* Properties of mergePaintOverlay (SpecMerge)
\* ------------------------------------------------------------------------
\* C28: mergePaintOverlay(null, stroke, w, h) returns a buffer equal to the
\* stroke byte for byte, for every stroke of w * h * 4 bytes, and the buffer
\* is a new object, not the stroke buffer.
C28_MergeIntoNothing ==
  [](hLast.op = "mergePaintOverlay" /\ hLast.arg.existing = Null
       => /\ hLast.ret.bytes = hLast.arg.stroke.bytes
          /\ hLast.ret.ref # hLast.arg.stroke.ref)

\* a two-pixel stroke with a translucent and a transparent pixel, merged into
\* nothing
C28_Witness ==
  /\ hLast.op = "mergePaintOverlay"
  /\ hLast.arg.existing = Null
  /\ Len(hLast.arg.stroke.bytes) = 8
  /\ hLast.arg.stroke.bytes[4] = 128
  /\ hLast.arg.stroke.bytes[8] = 0
  /\ hLast.arg.stroke.bytes[5] = 255

\* ------------------------------------------------------------------------
\* Properties of the compositor (SpecRender)
\* ------------------------------------------------------------------------
PixelIndices == 0..(canvas.width * canvas.height - 1)

\* the layer has committed paint on pixel idx
Painted(layer, idx) == At(layer.paintData, 4 * idx + 3) > 0

\* the layer keeps pixel idx of the image: mask 1, colour match, alpha > 0
Claims(layer, idx) ==
  /\ At(layer.mask, idx) = 1
  /\ PixelMatch(layer, Rgba(originalImageData.data, idx))

\* C27: the per-layer export raster of a layer contains that layer's kept,
\* colour-matching source pixels and also its committed painted pixels, and
\* is transparent everywhere else.
C27_LayerExportHasPaint ==
  (hLast.op = "downloadAllLayers" /\ Len(hLast.ret.rasters) > 0) =>
    \A k \in 1..Len(layers), idx \in PixelIndices :
      LET out == Rgba(hLast.ret.rasters[k].data, idx)
      IN /\ (Claims(layers[k], idx) /\ ~Painted(layers[k], idx))
              => out = Rgba(originalImageData.data, idx)
         /\ Painted(layers[k], idx) => out[4] > 0
         /\ (~Claims(layers[k], idx) /\ ~Painted(layers[k], idx)) => out[4] = 0

\* the raster a Reconstruct composite or download produced, with its ids
ReconstructOutput ==
  IF hLast.op = "redraw" /\ hLast.ret.mode = "reconstruct"
  THEN [data |-> hLast.ret.data, ids |-> hLast.arg.ids]
  ELSE IF hLast.op = "downloadReconstructed" /\ Len(hLast.ret.rasters) > 0
  THEN [data |-> hLast.ret.rasters[1].data, ids |-> hLast.arg.ids]
  ELSE Null

AllTransparent(data) == \A idx \in PixelIndices : At(data, 4 * idx + 3) = 0

\* C24: exportReconstructedImageData with an empty id set, or with ids none
\* of which names an existing layer, returns a raster of the image's size
\* whose alpha is 0 at every pixel; the download handler with an empty
\* selection produces no file and changes no state.
C24_EmptySelection ==
  /\ [](LET r == exportReconstructedImageData(originalImageData, layers, {})
        IN /\ r.width = originalImageData.width
           /\ r.height = originalImageData.height
           /\ Len(r.data) = 4 * r.width * r.height
           /\ AllTransparent(r.data))
  /\ []((ReconstructOutput # Null /\ ReconstructOutput.ids \cap LayerIds(layers) = {})
          => /\ Len(ReconstructOutput.data)
                  = 4 * originalImageData.width * originalImageData.height
             /\ AllTransparent(ReconstructOutput.data))
  /\ []((hLast.op = "downloadReconstructed" /\ hLast.arg.ids = {})
          => hLast.ret.files = <<>>)
  /\ [][(hLast'.op = "downloadReconstructed" /\ hLast'.arg.ids = {})
          => UNCHANGED <<appVars, histVars, canvasVars, drawVars>>]_vars

\* the export ran on ids that name no layer, on layers that keep or paint
\* pixels of the image, and the file is transparent
C24_Witness ==
  /\ hLast.op = "downloadReconstructed"
  /\ hLast.arg.ids = {3}
  /\ \E k \in 1..Len(layers), idx \in PixelIndices : Claims(layers[k], idx)
  /\ \E k \in 1..Len(layers), idx \in PixelIndices : Painted(layers[k], idx)
  /\ Len(hLast.ret.files) = 1
  /\ AllTransparent(hLast.ret.rasters[1].data)

\* C25: in Reconstruct mode, every pixel at which no selected layer has
\* (mask 1 and colour match and source alpha > 0) and no selected layer has
\* paint is fully transparent in the output: the original image is never used
\* as a background, and unselected layers never contribute.
C25_ReconstructUnclaimedTransparent ==
  ReconstructOutput # Null =>
    \A idx \in PixelIndices :
      (\A k \in 1..Len(layers) :
         layers[k].id \in ReconstructOutput.ids
           => ~Claims(layers[k], idx) /\ ~Painted(layers[k], idx))
        => Rgba(ReconstructOutput.data, idx) = <<0, 0, 0, 0>>

\* a Reconstruct composite of the top layer alone, which leaves out a pixel
\* of the image that is not transparent and that the unselected layer keeps
C25_Witness ==
  /\ ReconstructOutput # Null
  /\ ReconstructOutput.ids = {1}
  /\ Len(layers) = 2
  /\ \E idx \in PixelIndices :
       /\ Claims(layers[2], idx)
       /\ ~Claims(layers[1], idx) /\ ~Painted(layers[1], idx)
       /\ Rgba(ReconstructOutput.data, idx) = <<0, 0, 0, 0>>
  /\ \E idx \in PixelIndices : At(ReconstructOutput.data, 4 * idx + 3) > 0

\* the composite the canvas was last drawn with, in the given view
Drawn(mode) == hLast.op = "redraw" /\ hLast.ret.mode = mode

\* the decoded raster's pixel, as the redraw effect reads it
SourcePixel(idx) == Rgba(canvas.data, idx)

\* nothing is painted: no layer has committed paint and no paint stroke is in
\* progress
NoPaint ==
  /\ \A k \in 1..Len(layers), idx \in PixelIndices : ~Painted(layers[k], idx)
  /\ \A idx \in PixelIndices : At(paintOverlayRef, 4 * idx + 3) = 0

\* the mask the view draws a layer with: the layer's mask, and for the layer
\* being edited the working copy of it while a stroke is in progress
ShownMask(layer) ==
  IF layer.id = selectedLayerId /\ workingMaskRef # NullBuf THEN workingMaskRef
  ELSE layer.mask

Shows(layer, idx) ==
  At(ShownMask(layer), idx) = 1 /\ PixelMatch(layer, SourcePixel(idx))

C22_WholeShowsOriginal ==
  Drawn("whole") =>
    \A idx \in PixelIndices :
      (\A k \in 1..Len(layers) :
         layers[k].visible => ~Shows(layers[k], idx) /\ ~Painted(layers[k], idx))
        => Rgba(hLast.ret.data, idx) = SourcePixel(idx)

C31_MonotoneInTolerance ==
  (hLast.op = "colorMatches" /\ hLast.arg.tolerance \in 0..100) =>
    LET p == hLast.arg.pixel
        target == hLast.arg.target
        t1 == hLast.arg.tolerance
    IN /\ hLast.ret =>
            \A t2 \in t1..100 :
              colorMatches(p.r, p.g, p.b, target.r, target.g, target.b, t2)
       /\ t1 = 0 => (hLast.ret <=> p = target)
       /\ t1 = 100 => hLast.ret

\* black matched white at tolerance 100
C31_Witness ==
  /\ hLast.op = "colorMatches"
  /\ hLast.arg.pixel = [r |-> 0, g |-> 0, b |-> 0]
  /\ hLast.arg.target = [r |-> 255, g |-> 255, b |-> 255]
  /\ hLast.arg.tolerance = 100
  /\ hLast.ret = TRUE

\* ------------------------------------------------------------------------
\* Properties of getDominantColors (SpecDominant)
\* ------------------------------------------------------------------------
\* the pixels the stride visits whose alpha is at least 128
Sampled(imageData, step) ==
  {p \in Pixels(imageData.width, imageData.height) :
     /\ p[1] % step = 0
     /\ p[2] % step = 0
     /\ At(imageData.data, 4 * (p[2] * imageData.width + p[1]) + 3) >= 128}

\* the 12-level bin of pixel p: floor(v * 12 / 255), 255 in the top bin
BinOf(imageData, p) ==
  LET i == 4 * (p[2] * imageData.width + p[1])
      level(v) == IF v = 255 THEN 11 ELSE CHOOSE q \in 0..11 : 255 * q <= 12 * v /\ 12 * v < 255 * (q + 1)
  IN <<level(At(imageData.data, i)), level(At(imageData.data, i + 1)),
       level(At(imageData.data, i + 2))>>

Frequency(imageData, step, bin) ==
  Cardinality({p \in Sampled(imageData, step) : BinOf(imageData, p) = bin})

\* round((level + 0.5) * 255 / 12): the integer c with c - 1/2 <= x < c + 1/2
CentreOf(level) ==
  CHOOSE c \in 0..255 : 24 * c - 12 <= (2 * level + 1) * 255
                        /\ (2 * level + 1) * 255 < 24 * c + 12

ColourOfBin(bin) == [r |-> CentreOf(bin[1]), g |-> CentreOf(bin[2]), b |-> CentreOf(bin[3])]

AllTransparentImage(imageData) ==
  \A p \in Pixels(imageData.width, imageData.height) :
    At(imageData.data, 4 * (p[2] * imageData.width + p[1]) + 3) = 0

\* C32: getDominantColors returns, for every image, the bucket centres
\* round((level + 0.5) * 255 / 12) of the at most maxColors most frequent
\* 12-level RGB bins among the stride-sampled pixels with alpha >= 128, most
\* frequent first and without duplicates; an all-transparent or zero-sized
\* image yields the empty list and therefore zero layers.
C32_DominantColours ==
  /\ hLast.op = "getDominantColors" =>
       LET img == originalImageData
           step == hLast.arg.sampleStep
           bins == {BinOf(img, p) : p \in Sampled(img, step)}
           ret == hLast.ret
       IN /\ Len(ret) = Min(hLast.arg.maxColors, Cardinality(bins))
          /\ \E order \in [1..Len(ret) -> bins] :
               /\ \A i \in 1..Len(ret) : ret[i] = ColourOfBin(order[i])
               /\ \A i, j \in 1..Len(ret) : i # j => order[i] # order[j]
               /\ \A i, j \in 1..Len(ret) :
                    i < j => Frequency(img, step, order[i]) >= Frequency(img, step, order[j])
               /\ \A i \in 1..Len(ret), b \in bins :
                    (\A j \in 1..Len(ret) : order[j] # b)
                      => Frequency(img, step, order[i]) >= Frequency(img, step, b)
          /\ \A i, j \in 1..Len(ret) : i # j => ret[i] # ret[j]
          /\ AllTransparentImage(img) => ret = <<>>
  /\ hLast.op = "newLayers" =>
       (AllTransparentImage(originalImageData) => hLast.ret = <<>>)

\* two bins of different frequency, a pixel skipped for its alpha, and
\* maxColors 1 keeping the more frequent bin only
C32_Witness ==
  /\ hLast.op = "getDominantColors"
  /\ hLast.arg.maxColors = 1
  /\ hLast.arg.sampleStep = 1
  /\ originalImageData.data = Blue \o <<0, 255, 0, 127>> \o Red \o <<250, 0, 0, 255>>
  /\ hLast.ret = <<[r |-> 244, g |-> 11, b |-> 11]>>

\* ------------------------------------------------------------------------
\* Properties of paint under transforms (SpecPaintGeom)
\* ------------------------------------------------------------------------
\* C33: in every reachable editor state, every layer's paint overlay is
\* either null or has length exactly width * height * 4 of the current
\* dimensions, also after rotate, flip, crop, undo and redo.
C33_PaintLengthIsArea ==
  dimensions # Null =>
    \A k \in 1..Len(layers) :
      \/ layers[k].paintData = NullBuf
      \/ Len(layers[k].paintData) = dimensions.width * dimensions.height * 4

\* ------------------------------------------------------------------------
\* Properties of the crop (Spec)
\* ------------------------------------------------------------------------
\* the raster after the step is the crop of the raster before it to a
\* rectangle at (x, y) of the new dimensions
CroppedAt(x, y) ==
  originalImageData' =
    cropImageData(originalImageData,
                  [x |-> x, y |-> y, width |-> dimensions'.width,
                   height |-> dimensions'.height])

\* C34: every crop rectangle that reaches handleCrop lies within the current
\* image (x >= 0, y >= 0, x + width <= W, y + height <= H) for every image
\* size including images narrower or shorter than 4 pixels; a rectangle
\* exceeding the buffer is rejected with an error rather than applied.
C34_CropWithinImage ==
  [][hLast'.op = "crop"
       => \E x \in 0..dimensions.width, y \in 0..dimensions.height :
            /\ x + dimensions'.width <= dimensions.width
            /\ y + dimensions'.height <= dimensions.height
            /\ CroppedAt(x, y)]_vars

\* ------------------------------------------------------------------------
\* Properties of the image-ready callback (Spec)
\* ------------------------------------------------------------------------
\* C35: an image-ready callback caused by a rotate, flip, crop, undo or redo
\* never regenerates the layer list, in any timing relative to the
\* asynchronous image decodes, two of these operations before the first
\* decode completes included: the layers remain those the operation set.
\* (Stated for the callbacks that run while every pending decode was started
\* by one of these operations, none by handleImageLoad, right after such an
\* operation or after the callback of another of them.)
C35_ImageReadyKeepsLayers ==
  [][(/\ hLast'.op = "imageReady"
      /\ \A k \in 1..Len(loading) : ~loading[k].fresh
      /\ \/ hLast.op \in Transforms \cup {"undo", "redo"}
         \/ hLast.op = "imageReady" /\ ~hLast.arg.fresh)
       => layers' = layers]_vars

\* ------------------------------------------------------------------------
\* Properties of the snapshots taken by the handlers (Spec)
\* ------------------------------------------------------------------------
\* the handlers that change the layer list, a mask or paint
LayerEdits ==
  Transforms \cup {"addLayer", "deleteLayer", "reset", "pointerUp", "selectLayer"}

\* C36: every user operation that changes the layer list or a layer's mask
\* or paint (add layer, delete layer, erase commit, paint commit, reset
\* masks, transforms) first pushes a snapshot of the state it started from:
\* after it the newest entry of the undo stack is that state, so that one
\* undo reverts it.
C36_EditIsSnapshotted ==
  [][(hLast'.op \in LayerEdits /\ layers' # layers)
       => /\ Len(pastRef') > 0
          /\ pastRef'[Len(pastRef')] = cloneEditorState(getCurrentState)]_vars

\* ------------------------------------------------------------------------
\* Properties of the selection (SpecPanel)
\* ------------------------------------------------------------------------
\* C37: in every reachable state selectedLayerId is null or the id of a layer
\* of the current layer list, across delete, undo, redo, transforms, image
\* load and the eyedropper's automatic selection.
C37_SelectionIsALayer ==
  selectedLayerId = NullId \/ selectedLayerId \in LayerIds(layers)

\* a redo has taken away a layer the undo before it had brought back, and
\* nothing is selected
C37_Witness ==
  /\ hLast.op = "redo"
  /\ hLast.ret # Null
  /\ selectedLayerId = NullId
  /\ Len(pastRef) > 0
  /\ LayerIds(pastRef[Len(pastRef)].layers) \ LayerIds(layers) # {}

\* ------------------------------------------------------------------------
\* Properties of the Reconstruct checkboxes (SpecPanel)
\* ------------------------------------------------------------------------
\* C38: in every reachable state the layer ids ticked for Reconstruct are ids
\* of layers of the current layer list, across toggle, select-all, clear,
\* delete, undo, redo and the load of a new image.
C38_TickedAreLayers ==
  selectedLayerIdsForReconstruct \subseteq LayerIds(layers)

\* ------------------------------------------------------------------------
\* Properties of the history under reordering (SpecOrder)
\* ------------------------------------------------------------------------
\* C39: a reorder request that leaves the layer order unchanged (an unknown
\* id, a drop onto the layer itself or onto the layer directly below it)
\* leaves the past and the future history stacks unchanged.
C39_NoOpMoveKeepsHistory ==
  [][(hLast'.op = "moveLayerToIndex" /\ layers' = layers)
       => UNCHANGED <<pastRef, futureRef>>]_vars

\* C40: for every layer list of n >= 2 layers, every layer of it and every
\* position p in 0..n-1 there is a drop target index in 0..n-1 for which one
\* handleMoveLayerToIndex call places that layer at position p; any layer can
\* be dragged to the bottom of the stack (index n-1) in one drop.
C40_EveryPositionInOneDrop ==
  Len(layers) >= 2
    => \A i \in 1..Len(layers), p \in 0..(Len(layers) - 1) :
         \E toIndex \in 0..(Len(layers) - 1) :
           FindIndex(moveLayerToIndex(layers, layers[i].id, toIndex), layers[i].id) = p

====
